---- MODULE Spec2Model ----
(***************************************************************************)
(* JiraCap: the snapshot store of the App component (team, issues,         *)
(* sprints, connected projects, the persisted workspace), its import,      *)
(* removal and capacity-edit handlers, and the dashboard metrics computed  *)
(* from the snapshot.                                                      *)
(***************************************************************************)
EXTENDS Integers, Sequences, FiniteSets, TLC

VARIABLES
    team, issues, sprints, projects,  \* the four useState cells of App
    storage,        \* localStorage[STORAGE_KEY]
    isConnecting,   \* useState cell; disables the Connect button
    conn,           \* the handleJiraConnect call in flight, with the state
                    \* its closure captured when it was called
    connectResult,  \* how the last handleJiraConnect call ended
    alertMsg,       \* text of the last alert()
    lastOp,         \* the handler step that produced this state
    ops,            \* number of user-initiated operations so far
    error,          \* JiraConnect: argument of the last setError call
    call,           \* a function or component applied on its own: its
                    \* name and arguments
    ret,            \* the value that application returned
    isGenerating    \* useState cell: a handleGenerateData call is in flight

vars == <<team, issues, sprints, projects, storage, isConnecting, conn,
          connectResult, alertMsg, lastOp, ops, error, call, ret,
          isGenerating>>

data == <<team, issues, sprints, projects>>

(* ---------------------------- bounds ----------------------------------- *)

\* number of user-initiated operations explored in one behaviour
MaxOps == 4

(* ------------------------ JavaScript values ---------------------------- *)

\* JavaScript null and undefined, as field values
Null == "<null>"
Undefined == "<undefined>"

\* An optional numeric field: <<>> when the property is missing, <<n>> when
\* it holds the number n
Absent == <<>>
Num(n) == <<n>>

\* A JavaScript number that is the result of a division: a finite rational
\* num/den (den > 0), or one of the non-finite values.
Finite(n, d) == [kind |-> "finite", num |-> n, den |-> d]
NaN == [kind |-> "NaN", num |-> 0, den |-> 1]
Infinity == [kind |-> "Infinity", num |-> 0, den |-> 1]
NegInfinity == [kind |-> "-Infinity", num |-> 0, den |-> 1]

\* a / b on integers, as IEEE-754 division decides the special cases
JSDiv(a, b) ==
    IF b = 0
    THEN IF a = 0 THEN NaN ELSE IF a > 0 THEN Infinity ELSE NegInfinity
    ELSE IF b > 0 THEN Finite(a, b) ELSE Finite(-a, -b)

\* x * k for an integer k > 0
JSTimes(x, k) == IF x.kind = "finite" THEN Finite(x.num * k, x.den) ELSE x

\* Math.round: the nearest integer, ties towards +Infinity; NaN and the
\* infinities are returned as they are
MathRound(x) ==
    IF x.kind = "finite"
    THEN Finite((2 * x.num + x.den) \div (2 * x.den), 1)
    ELSE x

\* Math.min(k, x) for an integer k: NaN if x is NaN
MathMin(k, x) ==
    CASE x.kind = "NaN" -> NaN
      [] x.kind = "Infinity" -> Finite(k, 1)
      [] x.kind = "-Infinity" -> x
      [] OTHER -> IF k * x.den < x.num THEN Finite(k, 1) ELSE x

IsFiniteNumber(x) == x.kind = "finite"

(* --------------------------- constants.ts ------------------------------ *)

Member(id, name, role, avatar, cap, skills) ==
    [id |-> id, name |-> name, role |-> role, avatar |-> avatar,
     capacityPerSprint |-> cap, skills |-> skills]

Issue(id, key, summary, type, priority, status, assignee, points, sprint) ==
    [id |-> id, key |-> key, summary |-> summary, type |-> type,
     priority |-> priority, status |-> status, assigneeId |-> assignee,
     storyPoints |-> points, sprintId |-> sprint, projectKey |-> Undefined,
     timeSpentSeconds |-> Absent, timeEstimateSeconds |-> Absent,
     parentKey |-> Undefined, parentSummary |-> Undefined]

SprintRec(id, name, startDate, endDate, state) ==
    [id |-> id, name |-> name, startDate |-> startDate, endDate |-> endDate,
     state |-> state, projectKey |-> Undefined]

INITIAL_TEAM ==
    << Member("u1", "Alice Chen", "Senior Frontend Dev",
              "https://picsum.photos/32/32?random=1", 20,
              <<"React", "TypeScript", "CSS">>),
       Member("u2", "Bob Smith", "Backend Engineer",
              "https://picsum.photos/32/32?random=2", 18,
              <<"Node.js", "PostgreSQL", "Redis">>),
       Member("u3", "Charlie Kim", "DevOps Engineer",
              "https://picsum.photos/32/32?random=3", 15,
              <<"AWS", "Terraform", "CI/CD">>),
       Member("u4", "Dana Scully", "Full Stack Dev",
              "https://picsum.photos/32/32?random=4", 25,
              <<"React", "Python", "Go">>) >>

INITIAL_SPRINTS ==
    << SprintRec("s1", "Sprint 24", "2023-10-01", "2023-10-14", "active"),
       SprintRec("s2", "Sprint 25", "2023-10-15", "2023-10-28", "future"),
       SprintRec("s3", "Sprint 26", "2023-10-29", "2023-11-11", "future") >>

MOCK_ISSUES ==
    << Issue("i1", "PROJ-101", "Implement Authentication Flow", "Story",
             "High", "In Progress", "u1", 8, "s1"),
       Issue("i2", "PROJ-102", "Database Schema Migration", "Task",
             "Highest", "To Do", "u2", 5, "s1"),
       Issue("i3", "PROJ-103", "Fix memory leak in worker", "Bug",
             "High", "To Do", "u2", 3, "s1"),
       Issue("i4", "PROJ-104", "Setup Kubernetes Cluster", "Task",
             "Medium", "In Progress", "u3", 13, "s1"),
       Issue("i5", "PROJ-105", "Dashboard UI Revamp", "Story",
             "Medium", "To Do", Null, 13, "s2"),
       Issue("i6", "PROJ-106", "API Rate Limiting", "Story",
             "High", "To Do", Null, 8, "s2") >>

(* ------------------- what the collaborators deliver -------------------- *)

\* team members as JiraService.parseTeamFromRaw builds them
ParsedMember(id, name) == Member(id, name, "Developer", "", 10, <<>>)

\* issues as JiraService.parseIssuesFromRaw builds them (sprintId undefined)
ParsedIssue(id, key, status, assignee, points) ==
    Issue(id, key, "summary of " \o key, "Story", "Medium", status, assignee,
          points, Undefined)

Alice == ParsedMember("u1", "Alice")
Alicia == ParsedMember("u1", "Alicia")
Nina == ParsedMember("u9", "Nina")

IssueOne == ParsedIssue("10001", "K-1", "To Do", "u1", 5)
IssueTwo == ParsedIssue("10002", "K-2", "In Progress", Null, 0)
IssueThree == ParsedIssue("10003", "K-3", "Done", "u9", 3)
IssueZero == ParsedIssue("10004", "K-4", "To Do", "u9", 0)

BoardSprint == SprintRec("7", "Board Sprint 7", "2024-01-01", "2024-01-14", "active")

\* the sprint handleManualSubmit makes up for a pasted export
ManualSprint == SprintRec("manual-1", "Current Sprint", "now", "now+14d", "active")

Batch(t, i, s) == [team |-> t, issues |-> i, sprints |-> s]

NoData == Batch(<<>>, <<>>, <<>>)

\* results of getTeamMembers / getSprints / getIssues of one project
FetchedBatches ==
    { Batch(<<Alice>>, <<IssueOne, IssueTwo>>, <<BoardSprint>>),
      Batch(<<Alicia, Nina>>, <<IssueOne, IssueZero>>, <<>>),
      Batch(<<Nina>>, <<IssueZero>>, <<>>),
      NoData }

\* project keys the user types into the connect form
ProjectKeys == {"ALPHA", "BETA"}

\* ids and values handed to handleCapacityChange; "u0" is no member
EditIds == {"u1", "u9", "u0"}
EditCapacities == {0, 7, -5}

(* ------------------------------ helpers -------------------------------- *)

RECURSIVE SelectSeqBy(_, _)
\* Array.prototype.filter, for a predicate given as the set of kept elements
SelectSeqBy(s, keep) ==
    IF s = <<>> THEN <<>>
    ELSE IF Head(s) \in keep
         THEN <<Head(s)>> \o SelectSeqBy(Tail(s), keep)
         ELSE SelectSeqBy(Tail(s), keep)

Range(s) == {s[k] : k \in 1..Len(s)}

Includes(s, x) == \E k \in 1..Len(s) : s[k] = x

(* --------------------------- App: persistence -------------------------- *)

NoStorage == [present |-> FALSE, team |-> <<>>, issues |-> <<>>,
              sprints |-> <<>>, projects |-> <<>>]

\* saveState / persistCurrentState: localStorage.setItem of the four lists
persistCurrentState(newTeam, newIssues, newSprints, newProjects) ==
    [present |-> TRUE, team |-> newTeam, issues |-> newIssues,
     sprints |-> newSprints, projects |-> newProjects]

(* ----------------------------- App: merge ------------------------------ *)

\* fetchedIssues.map(i => ({ ...i, projectKey })), the same for sprints
TagWith(list, projectKey) ==
    [k \in 1..Len(list) |-> [list[k] EXCEPT !.projectKey = projectKey]]

\* variant: an existing key keeps its old value (first write wins)
MapSetKeepFirst(values, m) ==
    IF \E k \in 1..Len(values) : values[k].id = m.id
    THEN values
    ELSE Append(values, m)

\* Map.prototype.set on a Map kept as the sequence of its values in
\* insertion order: an existing key keeps its place and takes the new value
MapSet(values, m) ==
    IF \E k \in 1..Len(values) : values[k].id = m.id
    THEN [k \in 1..Len(values) |->
            IF values[k].id = m.id THEN m ELSE values[k]]
    ELSE Append(values, m)

RECURSIVE MapSetAll(_, _)
MapSetAll(values, incoming) ==
    IF incoming = <<>> THEN values
    ELSE MapSetAll(MapSet(values, Head(incoming)), Tail(incoming))

\* new Map(nextTeam.map(m => [m.id, m])); fetchedTeam.forEach(set);
\* Array.from(teamMap.values())
MergeTeam(nextTeam, fetchedTeam) ==
    MapSetAll(MapSetAll(<<>>, nextTeam), fetchedTeam)

\* variant: the first import appends to the defaults
BaseListKeep(isFirstProject, list) == list

\* isFirstProject ? [] : [...list]
BaseList(isFirstProject, list) == IF isFirstProject THEN <<>> ELSE list

\* variant: incoming entries whose id is already present are dropped
MergeListDedup(next, tagged) ==
    next \o SelectSeqBy(tagged,
                {x \in Range(tagged) : \A y \in Range(next) : y.id # x.id})

\* [...nextIssues, ...taggedIssues]
MergeList(next, tagged) == next \o tagged

\* "MANUAL-IMPORT-" + (projects.length + 1)
ManualKey(projs) == "MANUAL-IMPORT-" \o ToString(Len(projs) + 1)

\* variant: no duplicate-project guard
IsConnectedNever(projs, projectKey) == FALSE

\* projects.includes(config.projectKey)
IsConnected(projs, projectKey) == Includes(projs, projectKey)

(* ------------------------------ App: state ----------------------------- *)

Idle == [pc |-> "idle", projectKey |-> "", team |-> <<>>, issues |-> <<>>,
         sprints |-> <<>>, projects |-> <<>>]

\* no function is applied on its own in the behaviours of the App
NoCall == [fn |-> "none"]
NoRet == [done |-> FALSE]

Op(name, key, batch, id, cap) ==
    [op |-> name, key |-> key, data |-> batch, id |-> id, cap |-> cap]

Init ==
    /\ team = INITIAL_TEAM
    /\ issues = MOCK_ISSUES
    /\ sprints = INITIAL_SPRINTS
    /\ projects = <<>>
    /\ storage = NoStorage
    /\ isConnecting = FALSE
    /\ conn = Idle
    /\ connectResult = "none"
    /\ alertMsg = ""
    /\ lastOp = Op("init", "", NoData, "", 0)
    /\ ops = 0
    /\ error = Null
    /\ isGenerating = FALSE
    /\ call = NoCall
    /\ ret = NoRet

(* ------------------------ App: handleJiraConnect ----------------------- *)

\* The call up to its first await. The Connect button is disabled while
\* isConnecting. The closure of the handler holds the state of the render
\* in which the button was clicked.
JiraConnectCall(projectKey) ==
    /\ ops < MaxOps
    /\ ~isConnecting
    /\ ops' = ops + 1
    /\ error' = Null
    /\ IF IsConnected(projects, projectKey)
       THEN /\ alertMsg' = "Project " \o projectKey \o " is already connected."
            /\ connectResult' = "false"
            /\ lastOp' = Op("connectRejected", projectKey, NoData, "", 0)
            /\ UNCHANGED <<data, storage, isConnecting, conn, call, ret, isGenerating>>
       ELSE /\ isConnecting' = TRUE
            /\ conn' = [pc |-> "validating", projectKey |-> projectKey,
                        team |-> team, issues |-> issues,
                        sprints |-> sprints, projects |-> projects]
            /\ connectResult' = "pending"
            /\ lastOp' = Op("connectCall", projectKey, NoData, "", 0)
            /\ UNCHANGED <<data, storage, alertMsg, call, ret, isGenerating>>

\* await service.validateConnection() resolves
ValidateOk ==
    /\ conn.pc = "validating"
    /\ conn' = [conn EXCEPT !.pc = "fetching"]
    /\ lastOp' = Op("validateOk", conn.projectKey, NoData, "", 0)
    /\ UNCHANGED <<data, storage, isConnecting, connectResult, alertMsg, ops,
                   error, call, ret, isGenerating>>

\* handleApiSubmit: the message of the error thrown, or the fallback text
ConnectionFailed == "Connection failed"

\* variant: the project is recorded as connected before the fetch, and stays
\* recorded when the fetch fails
ConnectThrowPartial(step) ==
    /\ conn' = Idle
    /\ isConnecting' = FALSE
    /\ connectResult' = "throw"
    /\ lastOp' = Op(step, conn.projectKey, NoData, "", 0)
    /\ projects' = Append(projects, conn.projectKey)
    /\ error' = ConnectionFailed
    /\ UNCHANGED <<team, issues, sprints, storage, alertMsg, ops, call, ret, isGenerating>>

\* the catch and finally blocks: rethrow, setIsConnecting(false)
ConnectThrow(step) ==
    /\ conn' = Idle
    /\ isConnecting' = FALSE
    /\ connectResult' = "throw"
    /\ lastOp' = Op(step, conn.projectKey, NoData, "", 0)
    /\ error' = ConnectionFailed
    /\ UNCHANGED <<data, storage, alertMsg, ops, call, ret, isGenerating>>

\* validateConnection throws (401, 403, 404, other status, network)
ValidateFail ==
    /\ conn.pc = "validating"
    /\ ConnectThrow("validateFail")

\* one of getTeamMembers / getSprints / getIssues rejects: Promise.all
\* rejects and the results of the others are dropped
FetchFail(which) ==
    /\ conn.pc = "fetching"
    /\ ConnectThrow("fetchFail:" \o which)

\* Promise.all resolves: tag, merge into the captured state, set the four
\* cells, persist, return true
ConnectDone(fetched) ==
    /\ conn.pc = "fetching"
    /\ LET taggedIssues == TagWith(fetched.issues, conn.projectKey)
           taggedSprints == TagWith(fetched.sprints, conn.projectKey)
           mergedProjects == Append(conn.projects, conn.projectKey)
           isFirstProject == Len(conn.projects) = 0
           nextTeam == MergeTeam(BaseList(isFirstProject, conn.team),
                                 fetched.team)
           nextIssues == MergeList(BaseList(isFirstProject, conn.issues),
                                   taggedIssues)
           nextSprints == MergeList(BaseList(isFirstProject, conn.sprints),
                                    taggedSprints)
       IN /\ team' = nextTeam
          /\ issues' = nextIssues
          /\ sprints' = nextSprints
          /\ projects' = mergedProjects
          /\ storage' = persistCurrentState(nextTeam, nextIssues,
                                            nextSprints, mergedProjects)
    /\ isConnecting' = FALSE
    /\ conn' = Idle
    /\ connectResult' = "true"
    /\ lastOp' = Op("connectDone", conn.projectKey, fetched, "", 0)
    /\ UNCHANGED <<alertMsg, ops, error, call, ret, isGenerating>>

(* --------------------- JiraService: text of a field -------------------- *)

\* A text that the code inspects is a sequence of one-character strings.
Alphabet ==
    [ Upper |-> <<"A", "B", "C", "D", "E", "F", "G", "H", "I", "J", "K", "L", "M",
               "N", "O", "P", "Q", "R", "S", "T", "U", "V", "W", "X", "Y", "Z">>,
      Lower |-> <<"a", "b", "c", "d", "e", "f", "g", "h", "i", "j", "k", "l", "m",
               "n", "o", "p", "q", "r", "s", "t", "u", "v", "w", "x", "y", "z">> ]

\* String.prototype.toLowerCase
toLowerCase(s) ==
    [k \in 1..Len(s) |->
        IF \E n \in 1..26 : Alphabet.Upper[n] = s[k]
        THEN Alphabet.Lower[CHOOSE n \in 1..26 : Alphabet.Upper[n] = s[k]]
        ELSE s[k]]

\* String.prototype.includes
includes(s, sub) ==
    \E k \in 0..(Len(s) - Len(sub)) : SubSeq(s, k + 1, k + Len(sub)) = sub

\* An optional text: <<>> when the property is missing, <<s>> when it is s
NoText == <<>>
Text(s) == <<s>>

\* the texts the mappers look for
Word ==
    [done |-> <<"d", "o", "n", "e">>,
     closed |-> <<"c", "l", "o", "s", "e", "d">>,
     progress |-> <<"p", "r", "o", "g", "r", "e", "s", "s">>,
     in_progress |-> <<"i", "n", " ", "p", "r", "o", "g", "r", "e", "s", "s">>,
     review |-> <<"r", "e", "v", "i", "e", "w">>,
     qa |-> <<"q", "a">>,
     bug |-> <<"b", "u", "g">>,
     task |-> <<"t", "a", "s", "k">>,
     epic |-> <<"e", "p", "i", "c">>,
     highest |-> <<"h", "i", "g", "h", "e", "s", "t">>,
     blocker |-> <<"b", "l", "o", "c", "k", "e", "r">>,
     high |-> <<"h", "i", "g", "h">>,
     critical |-> <<"c", "r", "i", "t", "i", "c", "a", "l">>,
     low |-> <<"l", "o", "w">>,
     minor |-> <<"m", "i", "n", "o", "r">> ]

mapIssueType(type) ==
    LET lower == toLowerCase(type)
    IN IF includes(lower, Word.bug) THEN "Bug"
       ELSE IF includes(lower, Word.task) THEN "Task"
       ELSE IF includes(lower, Word.epic) THEN "Epic"
       ELSE "Story"

\* variant: high and critical are tested before highest and blocker
mapPriorityHighFirst(priority) ==
    LET lower == toLowerCase(priority)
    IN IF includes(lower, Word.high) \/ includes(lower, Word.critical)
       THEN "High"
       ELSE IF includes(lower, Word.highest) \/ includes(lower, Word.blocker)
       THEN "Highest"
       ELSE IF includes(lower, Word.low) \/ includes(lower, Word.minor) THEN "Low"
       ELSE "Medium"

mapPriority(priority) ==
    LET lower == toLowerCase(priority)
    IN IF includes(lower, Word.highest) \/ includes(lower, Word.blocker)
       THEN "Highest"
       ELSE IF includes(lower, Word.high) \/ includes(lower, Word.critical)
       THEN "High"
       ELSE IF includes(lower, Word.low) \/ includes(lower, Word.minor) THEN "Low"
       ELSE "Medium"

mapStatus(status, statusCategory) ==
    LET lower == toLowerCase(status)
        \* statusCategory?.toLowerCase() || ''
        catLower == IF statusCategory = NoText THEN <<>>
                    ELSE toLowerCase(statusCategory[1])
    IN IF catLower = Word.done \/ includes(lower, Word.done)
                             \/ includes(lower, Word.closed)
       THEN "Done"
       ELSE IF catLower = Word.in_progress \/ includes(lower, Word.progress)
       THEN "In Progress"
       ELSE IF includes(lower, Word.review) \/ includes(lower, Word.qa)
       THEN "In Review"
       ELSE "To Do"

(* ----------------------- App: handleManualImport ----------------------- *)

handleManualImport(batch) ==
    /\ ops < MaxOps
    /\ ops' = ops + 1
    /\ LET manualKey == ManualKey(projects)
           taggedIssues == TagWith(batch.issues, manualKey)
           taggedSprints == TagWith(batch.sprints, manualKey)
           isFirstProject == Len(projects) = 0
           nextTeam == MergeTeam(BaseList(isFirstProject, team), batch.team)
           nextIssues == MergeList(BaseList(isFirstProject, issues),
                                   taggedIssues)
           nextSprints == MergeList(BaseList(isFirstProject, sprints),
                                    taggedSprints)
           nextProjects == Append(projects, manualKey)
       IN /\ team' = nextTeam
          /\ sprints' = nextSprints
          /\ issues' = nextIssues
          /\ projects' = nextProjects
          /\ storage' = persistCurrentState(nextTeam, nextIssues,
                                            nextSprints, nextProjects)
          /\ lastOp' = Op("manualImport", manualKey, batch, "", 0)
    /\ UNCHANGED <<isConnecting, conn, connectResult, alertMsg, call, ret, isGenerating>>

(* ------------------ JiraService: parseIssuesFromRaw -------------------- *)

\* the value of a JSON property, as far as typeof and truthiness go
JSValue(type, num, str) == [type |-> type, num |-> num, str |-> str]
JSNumber(n) == JSValue("number", n, "")
JSString(s) == JSValue("string", 0, s)

\* v || 0
OrZero(v) ==
    IF \/ v.type \in {"undefined", "null"}
       \/ v.type = "number" /\ v.num = 0
       \/ v.type = "string" /\ v.str = ""
    THEN JSNumber(0) ELSE v

\* the assignee object of a raw issue
RawAssignee(accountId, displayName, accountType) ==
    [accountId |-> accountId, displayName |-> displayName,
     accountType |-> accountType]

\* one record of a Jira search response; assignee is <<>> for null
RawFields(summary, issuetype, priority, status, category, points, assignee) ==
    [summary |-> summary, issuetype |-> issuetype, priority |-> priority,
     status |-> status, statusCategory |-> category,
     customfield_10016 |-> points, assignee |-> assignee]

\* fields is <<>> when the record has no fields property
RawIssue(id, key, fields) == [id |-> id, key |-> key, fields |-> fields]

\* the body of issues.map(...) for a record that has fields
parseIssue(i) ==
    LET f == i.fields[1]
        storyPoints == OrZero(f.customfield_10016)
    IN Issue(i.id, i.key, f.summary, mapIssueType(f.issuetype),
             mapPriority(f.priority),
             mapStatus(f.status, f.statusCategory),
             IF f.assignee = <<>> THEN Null ELSE f.assignee[1].accountId,
             IF storyPoints.type = "number" THEN storyPoints.num ELSE 0,
             Undefined)

\* A parsed JSON text: ok is FALSE when JSON.parse throws; issues is <<>>
\* when the value has no issues property and <<list>> when it has; items is
\* the value itself when it is an array.
Json(ok, isArray, issuesProp, items) ==
    [ok |-> ok, isArray |-> isArray, issues |-> issuesProp, items |-> items]

\* the outcome of a call that may throw
Returned(value) == [threw |-> FALSE, value |-> value, message |-> ""]
Thrown(message) == [threw |-> TRUE, value |-> <<>>, message |-> message]

\* parseIssuesFromRaw: reading i.fields.customfield_10016 of a record
\* without fields throws a TypeError out of the map
parseIssuesFromRaw(json) ==
    IF json.issues = <<>> /\ ~json.isArray THEN Returned(<<>>)
    ELSE LET list == IF json.issues # <<>> THEN json.issues[1]
                     ELSE json.items
         IN IF \E k \in 1..Len(list) : list[k].fields = <<>>
            THEN Thrown("Cannot read properties of undefined")
            ELSE Returned([k \in 1..Len(list) |-> parseIssue(list[k])])

\* parseTeamFromRaw, of the array of users the assignable search returns
parseTeamFromRaw(users) ==
    LET kept == SelectSeqBy(users, {u \in Range(users) :
                    u.accountType = "atlassian"})
    IN [k \in 1..Len(kept) |->
           ParsedMember(kept[k].accountId, kept[k].displayName)]

(* ------------------- JiraConnect: handleManualSubmit ------------------- *)

\* the members made of the assignees of data.issues, in a Map by accountId
AssigneesOf(list) ==
    LET withAssignee ==
            SelectSeqBy(list, {i \in Range(list) : i.fields[1].assignee # <<>>})
    IN MapSetAll(<<>>,
          [k \in 1..Len(withAssignee) |->
              ParsedMember(withAssignee[k].fields[1].assignee[1].accountId,
                           withAssignee[k].fields[1].assignee[1].displayName)])

\* the try block, up to the call of onManualImport
ParseManualInput(jsonInput) ==
    IF ~jsonInput.ok THEN Thrown("Unexpected token")
    ELSE IF jsonInput.issues = <<>> /\ ~jsonInput.isArray
    THEN Thrown("Invalid JSON format. Expected Jira API response.")
    ELSE LET parsedIssues == parseIssuesFromRaw(jsonInput)
         IN IF parsedIssues.threw THEN parsedIssues
            ELSE IF Len(parsedIssues.value) = 0
            THEN Thrown("No issues found in the JSON.")
            ELSE Returned(Batch(IF jsonInput.issues # <<>>
                                THEN AssigneesOf(jsonInput.issues[1])
                                ELSE <<>>,
                                parsedIssues.value, <<ManualSprint>>))

\* the catch block sets the error; otherwise onManualImport runs
handleManualSubmit(jsonInput) ==
    LET r == ParseManualInput(jsonInput)
    IN IF r.threw
       THEN /\ ops < MaxOps
            /\ ops' = ops + 1
            /\ error' = r.message
            /\ lastOp' = Op("manualRejected", "", NoData, "", 0)
            /\ UNCHANGED <<data, storage, isConnecting, conn, connectResult,
                           alertMsg, call, ret, isGenerating>>
       ELSE /\ handleManualImport(r.value)
            /\ UNCHANGED error

(* --------------------------- pasted JSON texts ------------------------- *)

\* names of issue types, priorities, statuses and status categories of a
\* Jira workflow
Name ==
    [Story |-> <<"S", "t", "o", "r", "y">>,
     Medium |-> <<"M", "e", "d", "i", "u", "m">>,
     ToDo |-> <<"T", "o", " ", "D", "o">>,
     InProgress |-> <<"I", "n", " ", "P", "r", "o", "g", "r", "e", "s", "s">>,
     Closed |-> <<"C", "l", "o", "s", "e", "d">>,
     Done |-> <<"D", "o", "n", "e">>,
     CLOSED |-> <<"C", "L", "O", "S", "E", "D">>,
     Open |-> <<"O", "p", "e", "n">>,
     CodeReview |-> <<"C", "o", "d", "e", " ", "R", "e", "v", "i", "e", "w">>,
     QABacklog |-> <<"Q", "A", " ", "B", "a", "c", "k", "l", "o", "g">> ]

\* the records of the pasted exports
Raw ==
    [ One |-> RawIssue("10001", "K-1",
        <<RawFields("summary of K-1", Name.Story, Name.Medium, Name.ToDo, Text(Name.ToDo),
                    JSNumber(5), <<RawAssignee("u1", "Alice", "atlassian")>>)>>),
      OneAlicia |-> RawIssue("10001", "K-1",
        <<RawFields("summary of K-1", Name.Story, Name.Medium, Name.ToDo, Text(Name.ToDo),
                    JSNumber(5), <<RawAssignee("u1", "Alicia", "atlassian")>>)>>),
      Two |-> RawIssue("10002", "K-2",
        <<RawFields("summary of K-2", Name.Story, Name.Medium, Name.InProgress,
                    Text(Name.InProgress), JSString("three"), <<>>)>>),
      Three |-> RawIssue("10003", "K-3",
        <<RawFields("summary of K-3", Name.Story, Name.Medium, Name.Closed, NoText,
                    JSNumber(3), <<RawAssignee("u9", "Nina", "atlassian")>>)>>),
      Bot |-> RawIssue("10004", "K-4",
        <<RawFields("summary of K-4", Name.Story, Name.Medium, Name.ToDo, Text(Name.ToDo),
                    JSNumber(2), <<RawAssignee("b7", "Deploy Bot", "app")>>)>>),
      NoFields |-> RawIssue("10009", "K-9", <<>>) ]

Pasted(list) == Json(TRUE, FALSE, <<list>>, <<>>)
PastedArray(list) == Json(TRUE, TRUE, <<>>, list)

\* texts pasted into the manual import box
JsonInputs ==
    { Pasted(<<Raw.One, Raw.Two>>),
      Pasted(<<Raw.OneAlicia, Raw.Three>>),
      PastedArray(<<Raw.One, Raw.Two>>),
      Pasted(<<Raw.One, Raw.NoFields>>),
      Pasted(<<Raw.One, Raw.Bot>>),
      Pasted(<<>>),
      Json(TRUE, FALSE, <<>>, <<>>),
      Json(FALSE, FALSE, <<>>, <<>>) }

\* the texts pasted in the behaviours of the App: two exports, an export
\* with a record that has no fields, an export without any issue
PastedTexts ==
    { Pasted(<<Raw.One, Raw.Two>>),
      Pasted(<<Raw.OneAlicia, Raw.Three>>),
      Pasted(<<Raw.One, Raw.NoFields>>),
      Pasted(<<>>) }

\* what handleManualSubmit hands to onManualImport: at least one issue, the
\* assignees of the issues as team, the one made-up sprint
ManualData ==
    { ParseManualInput(j).value :
        j \in {x \in PastedTexts : ~ParseManualInput(x).threw} }

(* ----------------------- App: handleRemoveProject ---------------------- *)

\* variant: the entries are dropped by id, with every other entry that has
\* the id of an entry of the removed project
WithoutProjectById(list, projectKeyToRemove) ==
    SelectSeqBy(list, {x \in Range(list) :
        \A y \in Range(list) : y.projectKey = projectKeyToRemove => y.id # x.id})

\* list.filter(x => x.projectKey !== projectKeyToRemove)
WithoutProject(list, projectKeyToRemove) ==
    SelectSeqBy(list, {x \in Range(list) : x.projectKey # projectKeyToRemove})

\* variant: the team is not reset with the issues and sprints
AfterRemoveKeepTeam(t, i, s, p, projectKeyToRemove) ==
    LET nextProjects == SelectSeqBy(p, Range(p) \ {projectKeyToRemove})
        nextIssues == WithoutProject(i, projectKeyToRemove)
        nextSprints == WithoutProject(s, projectKeyToRemove)
    IN IF Len(nextProjects) = 0
       THEN [team |-> t, issues |-> MOCK_ISSUES,
             sprints |-> INITIAL_SPRINTS, projects |-> nextProjects,
             storage |-> NoStorage]
       ELSE [team |-> t, issues |-> nextIssues, sprints |-> nextSprints,
             projects |-> nextProjects,
             storage |-> persistCurrentState(t, nextIssues, nextSprints,
                                             nextProjects)]

\* variant: members without a remaining assignment are pruned
AfterRemovePruneTeam(t, i, s, p, projectKeyToRemove) ==
    LET nextProjects == SelectSeqBy(p, Range(p) \ {projectKeyToRemove})
        nextIssues == WithoutProject(i, projectKeyToRemove)
        nextSprints == WithoutProject(s, projectKeyToRemove)
        nextTeam == SelectSeqBy(t, {m \in Range(t) :
                       \E x \in Range(nextIssues) : x.assigneeId = m.id})
    IN IF Len(nextProjects) = 0
       THEN [team |-> INITIAL_TEAM, issues |-> MOCK_ISSUES,
             sprints |-> INITIAL_SPRINTS, projects |-> nextProjects,
             storage |-> NoStorage]
       ELSE [team |-> nextTeam, issues |-> nextIssues,
             sprints |-> nextSprints, projects |-> nextProjects,
             storage |-> persistCurrentState(nextTeam, nextIssues,
                                             nextSprints, nextProjects)]

\* the state the handler sets: defaults when no project is left, else the
\* filtered lists and the team as it is
AfterRemove(t, i, s, p, projectKeyToRemove) ==
    LET nextProjects == SelectSeqBy(p, Range(p) \ {projectKeyToRemove})
        nextIssues == WithoutProject(i, projectKeyToRemove)
        nextSprints == WithoutProject(s, projectKeyToRemove)
    IN IF Len(nextProjects) = 0
       THEN [team |-> INITIAL_TEAM, issues |-> MOCK_ISSUES,
             sprints |-> INITIAL_SPRINTS, projects |-> nextProjects,
             storage |-> NoStorage]
       ELSE [team |-> t, issues |-> nextIssues, sprints |-> nextSprints,
             projects |-> nextProjects,
             storage |-> persistCurrentState(t, nextIssues, nextSprints,
                                             nextProjects)]

\* the remove button exists for the connected projects only
handleRemoveProject(projectKeyToRemove) ==
    /\ ops < MaxOps
    /\ Includes(projects, projectKeyToRemove)
    /\ ops' = ops + 1
    /\ LET r == AfterRemove(team, issues, sprints, projects,
                            projectKeyToRemove)
       IN /\ team' = r.team
          /\ issues' = r.issues
          /\ sprints' = r.sprints
          /\ projects' = r.projects
          /\ storage' = r.storage
    /\ lastOp' = Op("remove", projectKeyToRemove, NoData, "", 0)
    /\ UNCHANGED <<isConnecting, conn, connectResult, alertMsg, error,
                   call, ret, isGenerating>>

(* ---------------------- App: handleCapacityChange ---------------------- *)

\* variant: the id test is missing, every member takes the new capacity
WithCapacityAll(t, memberId, newCapacity) ==
    [k \in 1..Len(t) |-> [t[k] EXCEPT !.capacityPerSprint = newCapacity]]

\* team.map(m => m.id === memberId ? { ...m, capacityPerSprint } : m)
WithCapacity(t, memberId, newCapacity) ==
    [k \in 1..Len(t) |->
        IF t[k].id = memberId
        THEN [t[k] EXCEPT !.capacityPerSprint = newCapacity]
        ELSE t[k]]

handleCapacityChange(memberId, newCapacity) ==
    /\ ops < MaxOps
    /\ ops' = ops + 1
    /\ LET nextTeam == WithCapacity(team, memberId, newCapacity)
       IN /\ team' = nextTeam
          /\ storage' = persistCurrentState(nextTeam, issues, sprints,
                                            projects)
    /\ lastOp' = Op("capacity", "", NoData, memberId, newCapacity)
    /\ UNCHANGED <<issues, sprints, projects, isConnecting, conn,
                   connectResult, alertMsg, error, call, ret, isGenerating>>

(* ----------------------- App: handleGenerateData ----------------------- *)

\* what generateSampleData resolves to: a team and issues, no sprints and
\* no source tag
GeneratedData ==
    [team |-> <<Member("g1", "Gina Ortiz", "DevOps", "", 13, <<"AWS">>)>>,
     issues |-> <<Issue("g-1", "SHOP-1", "Split the checkout service",
                        "Story", "High", "To Do", "g1", 8, "sprint-1")>>]

\* the Generate Data button, shown while no project is connected and
\* disabled while a generation runs: setIsGenerating(true), then the await
handleGenerateData ==
    /\ ops < MaxOps
    /\ Len(projects) = 0
    /\ ~isGenerating
    /\ ops' = ops + 1
    /\ isGenerating' = TRUE
    /\ lastOp' = Op("generateCall", "", NoData, "", 0)
    /\ UNCHANGED <<data, storage, isConnecting, conn, connectResult,
                   alertMsg, error, call, ret>>

\* generateSampleData resolves: the setters, removeItem, alert, finally
GenerateDone ==
    /\ isGenerating
    /\ team' = GeneratedData.team
    /\ issues' = GeneratedData.issues
    /\ projects' = <<>>
    /\ storage' = NoStorage
    /\ alertMsg' = "Sample data generated successfully!"
    /\ isGenerating' = FALSE
    /\ lastOp' = Op("generateDone", "", NoData, "", 0)
    /\ UNCHANGED <<sprints, isConnecting, conn, connectResult, ops, error,
                   call, ret>>

\* generateSampleData rejects (no API key, no response, invalid JSON)
GenerateFail ==
    /\ isGenerating
    /\ alertMsg' = "Failed to generate sample data."
    /\ isGenerating' = FALSE
    /\ lastOp' = Op("generateFail", "", NoData, "", 0)
    /\ UNCHANGED <<data, storage, isConnecting, conn, connectResult, ops,
                   error, call, ret>>

(* ------------------------- App: reload from storage -------------------- *)

\* the properties of an object that may hold undefined
OptionalTextFields == {"sprintId", "projectKey", "parentKey", "parentSummary"}
OptionalNumberFields == {"timeSpentSeconds", "timeEstimateSeconds"}

\* JSON.stringify of an object: a property holding undefined is left out
JSONStringify(obj) ==
    LET IsUndefinedField(f) ==
            \/ f \in OptionalTextFields /\ obj[f] = Undefined
            \/ f \in OptionalNumberFields /\ obj[f] = Absent
    IN [f \in {g \in DOMAIN obj : ~IsUndefinedField(g)} |-> obj[f]]

\* variant: a property that was left out reads as null
JSONParseNull(json, fields) ==
    [f \in fields |-> IF f \in DOMAIN json THEN json[f] ELSE Null]

\* JSON.parse, and what reading the properties fields of the parsed object
\* gives: a property that is not there reads as undefined
JSONParse(json, fields) ==
    [f \in fields |->
        IF f \in DOMAIN json THEN json[f]
        ELSE IF f \in OptionalNumberFields THEN Absent ELSE Undefined]

\* a list of objects written by saveState and read back by getSavedState
StoredList(list) ==
    [k \in 1..Len(list) |->
        JSONParse(JSONStringify(list[k]), DOMAIN list[k])]

\* getSavedState and the useState initializers: savedState?.team ||
\* INITIAL_TEAM and so on, null when nothing is stored
getSavedState(stored) ==
    IF stored.present
    THEN [team |-> StoredList(stored.team),
          issues |-> StoredList(stored.issues),
          sprints |-> StoredList(stored.sprints),
          projects |-> stored.projects]
    ELSE [team |-> INITIAL_TEAM, issues |-> MOCK_ISSUES,
          sprints |-> INITIAL_SPRINTS, projects |-> <<>>]

\* the page is loaded again: App mounts with the saved state; a call of
\* handleJiraConnect or handleGenerateData in flight is gone with the old
\* page
Reload ==
    /\ ops < MaxOps
    /\ ops' = ops + 1
    /\ LET savedState == getSavedState(storage)
       IN /\ team' = savedState.team
          /\ issues' = savedState.issues
          /\ sprints' = savedState.sprints
          /\ projects' = savedState.projects
    /\ isConnecting' = FALSE
    /\ conn' = Idle
    /\ connectResult' = "none"
    /\ error' = Null
    /\ isGenerating' = FALSE
    /\ lastOp' = Op("reload", "", NoData, "", 0)
    /\ UNCHANGED <<storage, alertMsg, call, ret>>

(* --------------------------- JavaScript numbers ------------------------ *)

\* x / y on JavaScript numbers (y never an infinity here)
JSDivN(x, y) ==
    IF x.kind = "NaN" \/ y.kind = "NaN" THEN NaN
    ELSE IF x.kind # "finite" THEN x
    ELSE JSDiv(x.num * y.den, y.num * x.den)

\* x > 0; false for NaN
JSPositive(x) ==
    \/ x.kind = "Infinity"
    \/ x.kind = "finite" /\ x.num > 0

\* field > 0 on an optional numeric field: undefined > 0 is false
FieldPositive(f) == f # Absent /\ f[1] > 0

RECURSIVE SumPoints(_)
\* list.reduce((acc, i) => acc + (i.storyPoints || 0), 0)
SumPoints(list) ==
    IF list = <<>> THEN 0
    ELSE Head(list).storyPoints + SumPoints(Tail(list))

RECURSIVE SumCapacity(_)
\* team.reduce((acc, t) => acc + t.capacityPerSprint, 0)
SumCapacity(t) ==
    IF t = <<>> THEN 0
    ELSE Head(t).capacityPerSprint + SumCapacity(Tail(t))

RECURSIVE SumField(_, _)
\* list.reduce((acc, i) => acc + i[field], 0): NaN once a field is missing
SumField(list, field) ==
    IF list = <<>> THEN Finite(0, 1)
    ELSE LET rest == SumField(Tail(list), field)
         IN IF Head(list)[field] = Absent \/ rest.kind = "NaN" THEN NaN
            ELSE Finite(Head(list)[field][1] + rest.num, 1)

(* ------------------------------ Dashboard ------------------------------ *)

\* variant: the last active sprint of the list is taken
activeSprintLast(s) ==
    IF \E k \in 1..Len(s) : s[k].state = "active"
    THEN CHOOSE k \in 1..Len(s) :
            /\ s[k].state = "active"
            /\ \A j \in (k+1)..Len(s) : s[j].state # "active"
    ELSE 0

\* sprints.find(s => s.state === 'active'): its position, 0 for undefined
activeSprint(s) ==
    IF \E k \in 1..Len(s) : s[k].state = "active"
    THEN CHOOSE k \in 1..Len(s) :
            /\ s[k].state = "active"
            /\ \A j \in 1..(k-1) : s[j].state # "active"
    ELSE 0

stats(i, t, s) ==
    LET a == activeSprint(s)
    IN [totalPoints |-> SumPoints(i),
        completedPoints |->
            SumPoints(SelectSeqBy(i, {x \in Range(i) : x.status = "Done"})),
        unassignedCount |->
            Len(SelectSeqBy(i, {x \in Range(i) : x.assigneeId = Null})),
        totalSprintCapacity |-> IF a # 0 THEN SumCapacity(t) ELSE 0,
        activeSprintPoints |->
            IF a # 0
            THEN SumPoints(SelectSeqBy(i,
                     {x \in Range(i) : x.sprintId = s[a].id}))
            ELSE 0]

\* the Sprint Health card
SprintHealth(i, t, s) ==
    LET st == stats(i, t, s)
    IN IF st.totalSprintCapacity > 0
       THEN MathRound(JSTimes(JSDiv(st.activeSprintPoints,
                                    st.totalSprintCapacity), 100))
       ELSE Finite(0, 1)

\* the Completion Rate card
CompletionRate(i, t, s) ==
    LET st == stats(i, t, s)
    IN IF Len(i) > 0
       THEN MathRound(JSTimes(JSDiv(st.completedPoints, st.totalPoints), 100))
       ELSE Finite(0, 1)

\* the Team Velocity card
TeamVelocity(i, t, s) ==
    LET st == stats(i, t, s)
    IN IF Len(s) > 0
       THEN MathRound(JSDiv(st.totalPoints, Len(s)))
       ELSE Finite(0, 1)

\* variant: the status test is missing, Done issues count as active load
AllAssignedPoints(member, i) ==
    SumPoints(SelectSeqBy(i, {x \in Range(i) : x.assigneeId = member.id}))

\* burnoutData: points of the issues assigned to the member and not Done
activeAssignedPoints(member, i) ==
    SumPoints(SelectSeqBy(i, {x \in Range(i) :
                 x.assigneeId = member.id /\ x.status # "Done"}))

\* variant: the Done issues of every sprint are counted
completedPointsAllSprints(member, i, s) ==
    SumPoints(SelectSeqBy(i, {x \in Range(i) :
                 x.assigneeId = member.id /\ x.status = "Done"}))

\* burnoutData: points of the member's Done issues, of the active sprint
\* when there is one
completedPoints(member, i, s) ==
    LET a == activeSprint(s)
    IN SumPoints(SelectSeqBy(i, {x \in Range(i) :
                    /\ x.assigneeId = member.id
                    /\ x.status = "Done"
                    /\ (a # 0 => x.sprintId = s[a].id)}))

\* burnoutData: capacity > 0 ? (activeAssignedPoints / capacity) * 100 : 0
rawUtilization(member, i) ==
    LET capacity == member.capacityPerSprint
    IN IF capacity > 0
       THEN JSTimes(JSDiv(activeAssignedPoints(member, i), capacity), 100)
       ELSE Finite(0, 1)

\* burnoutData: Math.min(rawUtilization, 120)
utilization(member, i) == MathMin(120, rawUtilization(member, i))

\* burnoutData: totalScope > 0 ? (completedPoints / totalScope) * 100 : 0
realization(member, i, s) ==
    LET done == completedPoints(member, i, s)
        totalScope == activeAssignedPoints(member, i) + done
    IN IF totalScope > 0
       THEN JSTimes(JSDiv(done, totalScope), 100)
       ELSE Finite(0, 1)

\* x > k on a JavaScript number x and an integer k; false for NaN
JSGreater(x, k) ==
    \/ x.kind = "Infinity"
    \/ x.kind = "finite" /\ x.num > k * x.den

\* variant: the flag is taken from the rounded figure the chart shows
isRiskRounded(member, i) ==
    JSGreater(MathRound(rawUtilization(member, i)), 85)

\* burnoutData: isRisk: rawUtilization > 85, on the const of the row
isRisk(member, i) == JSGreater(rawUtilization(member, i), 85)

\* burnoutData: the row of one member
BurnoutRow(member, i, s) ==
    [fullName |-> member.name,
     utilization |-> MathRound(utilization(member, i)),
     rawUtilization |-> MathRound(rawUtilization(member, i)),
     realization |-> MathRound(realization(member, i, s)),
     assigned |-> activeAssignedPoints(member, i),
     capacity |-> member.capacityPerSprint,
     isRisk |-> isRisk(member, i)]

RECURSIVE InsertRow(_, _)
\* the place of a row in a list sorted by b.rawUtilization -
\* a.rawUtilization: after the rows that are not below it
InsertRow(sorted, row) ==
    IF sorted = <<>> THEN <<row>>
    ELSE IF Head(sorted).rawUtilization.num >= row.rawUtilization.num
         THEN <<Head(sorted)>> \o InsertRow(Tail(sorted), row)
         ELSE <<row>> \o sorted

RECURSIVE SortRows(_, _)
\* Array.prototype.sort, which is stable
SortRows(sorted, rows) ==
    IF rows = <<>> THEN sorted
    ELSE SortRows(InsertRow(sorted, Head(rows)), Tail(rows))

\* burnoutData: map, filter(d => d.assigned > 0 || d.realization > 0), sort
burnoutData(t, i, s) ==
    LET rows == [k \in 1..Len(t) |-> BurnoutRow(t[k], i, s)]
        shown == SelectSeqBy(rows, {d \in Range(rows) :
                     d.assigned > 0 \/ JSPositive(d.realization)})
    IN SortRows(<<>>, shown)

\* new Date(startDate).getTime() of the start dates of the model, in days
\* (a date without a time is midnight UTC); "now" is the moment of the import
getTime(startDate) ==
    [ d \in {"2023-10-01", "2023-10-15", "2023-10-29", "2024-01-01",
              "2024-01-15", "now"} |->
        CASE d = "2023-10-01" -> 19631
          [] d = "2023-10-15" -> 19645
          [] d = "2023-10-29" -> 19659
          [] d = "2024-01-01" -> 19723
          [] d = "2024-01-15" -> 19737
          [] OTHER -> 20762 ][startDate]

RECURSIVE InsertSprint(_, _)
\* the place of a sprint in a list sorted by getTime(a) - getTime(b):
\* after the sprints that do not start later
InsertSprint(sorted, sprint) ==
    IF sorted = <<>> THEN <<sprint>>
    ELSE IF getTime(Head(sorted).startDate) - getTime(sprint.startDate) <= 0
         THEN <<Head(sorted)>> \o InsertSprint(Tail(sorted), sprint)
         ELSE <<sprint>> \o sorted

RECURSIVE sortedSprints(_, _)
\* [...sprints].sort(...): the stable sort of a copy
sortedSprints(sorted, s) ==
    IF s = <<>> THEN sorted
    ELSE sortedSprints(InsertSprint(sorted, Head(s)), Tail(s))

\* variant: a workload that equals the capacity is a breach
isBreachAtCapacity(sprintLoad, totalTeamCapacity) ==
    sprintLoad >= totalTeamCapacity

\* forecastData: isBreach: sprintLoad > totalTeamCapacity
isBreach(sprintLoad, totalTeamCapacity) == sprintLoad > totalTeamCapacity

\* forecastData: one entry per sprint, in the order of the start dates
forecastData(i, t, s) ==
    LET sorted == sortedSprints(<<>>, s)
        totalTeamCapacity == SumCapacity(t)
        sprintLoad(sprint) ==
            SumPoints(SelectSeqBy(i, {x \in Range(i) :
                         x.sprintId = sprint.id}))
    IN [k \in 1..Len(sorted) |->
           [name |-> sorted[k].name,
            capacity |-> totalTeamCapacity,
            workload |-> sprintLoad(sorted[k]),
            isBreach |-> isBreach(sprintLoad(sorted[k]), totalTeamCapacity)]]

\* burnoutData.filter(d => d.isRisk)
atRiskMembers(t, i, s) ==
    LET rows == burnoutData(t, i, s)
    IN SelectSeqBy(rows, {d \in Range(rows) : d.isRisk})

\* what the Dashboard component computes from its props, and the sprints
\* prop as the rendering leaves it
Dashboard(i, t, s) ==
    [burnoutData |-> burnoutData(t, i, s),
     forecastData |-> forecastData(i, t, s),
     sprints |-> s,
     atRiskMembers |-> atRiskMembers(t, i, s),
     sprintHealth |-> SprintHealth(i, t, s)]

(* --------------------------- CapacityPlanner --------------------------- *)

getMemberStats(memberId, i) ==
    LET memberIssues == SelectSeqBy(i, {x \in Range(i) :
                            x.assigneeId = memberId /\ x.status # "Done"})
    IN [assignedPoints |-> SumPoints(memberIssues),
        issueCount |-> Len(memberIssues)]

\* team.filter(member => getMemberStats(member.id).issueCount > 0)
activeTeamMembers(t, i) ==
    SelectSeqBy(t, {m \in Range(t) : getMemberStats(m.id, i).issueCount > 0})

\* Math.min(100, Math.round((assignedPoints / capacityPerSprint) * 100))
PlannerUtilization(member, i) ==
    MathMin(100, MathRound(JSTimes(
        JSDiv(getMemberStats(member.id, i).assignedPoints,
              member.capacityPerSprint), 100)))

(* ------------------------ TimeTrackingDashboard ------------------------ *)

\* stats.accuracy
Accuracy(i) ==
    LET activeIssues == SelectSeqBy(i, {x \in Range(i) :
                            \/ FieldPositive(x.timeSpentSeconds)
                            \/ FieldPositive(x.timeEstimateSeconds)})
        totalSpent == SumField(activeIssues, "timeSpentSeconds")
        totalEstimate == SumField(activeIssues, "timeEstimateSeconds")
    IN MathRound(IF JSPositive(totalEstimate)
                 THEN JSTimes(JSDivN(totalSpent, totalEstimate), 100)
                 ELSE Finite(0, 1))

\* a / b on two optional numeric fields: NaN when one is undefined
FieldRatio(a, b) ==
    IF a = Absent \/ b = Absent THEN NaN ELSE JSDiv(a[1], b[1])

\* x > n / d and x < n / d for a decimal literal n / d; false for NaN. The
\* literals 1.1 and 0.9 are the doubles nearest to 11/10 and 9/10, and a
\* quotient of two counts of seconds is never strictly between a literal
\* and the fraction it stands for.
JSGreaterRatio(x, n, d) ==
    \/ x.kind = "Infinity"
    \/ x.kind = "finite" /\ x.num * d > n * x.den
JSLessRatio(x, n, d) ==
    \/ x.kind = "-Infinity"
    \/ x.kind = "finite" /\ x.num * d < n * x.den

\* variant: an issue below 90 percent is under budget whatever its status
accuracyClassAnyStatus(issue) ==
    LET ratio == FieldRatio(issue.timeSpentSeconds, issue.timeEstimateSeconds)
    IN IF JSGreaterRatio(ratio, 11, 10) THEN "Over Budget"
       ELSE IF JSLessRatio(ratio, 9, 10) THEN "Under Budget"
       ELSE "On Track"

\* accuracyDistribution: the body of the forEach
accuracyClass(issue) ==
    LET ratio == FieldRatio(issue.timeSpentSeconds, issue.timeEstimateSeconds)
    IN IF JSGreaterRatio(ratio, 11, 10) THEN "Over Budget"
       ELSE IF JSLessRatio(ratio, 9, 10) /\ issue.status = "Done"
       THEN "Under Budget"
       ELSE "On Track"

\* accuracyDistribution: the three counters, in the order returned
accuracyDistribution(i) ==
    LET estimated == SelectSeqBy(i, {x \in Range(i) :
                         FieldPositive(x.timeEstimateSeconds)})
        count(c) == Len(SelectSeqBy(estimated, {x \in Range(estimated) :
                            accuracyClass(x) = c}))
    IN << [name |-> "Over Budget", value |-> count("Over Budget")],
          [name |-> "On Track", value |-> count("On Track")],
          [name |-> "Under Budget", value |-> count("Under Budget")] >>

\* toHours: Math.round((seconds / 3600) * 10) / 10
toHours(seconds) ==
    JSDivN(MathRound(JSDivN(JSTimes(seconds, 10), Finite(3600, 1))),
           Finite(10, 1))

\* assigneeData: spent and estimate of one member, in hours
assigneeHours(member, i, field) ==
    toHours(SumField(SelectSeqBy(i, {x \in Range(i) :
                         x.assigneeId = member.id}), field))

\* epicData: parentSummary || (parentKey ? parentKey : 'Uncategorized Work')
epicName(issue) ==
    IF issue.parentSummary # Undefined THEN issue.parentSummary
    ELSE IF issue.parentKey # Undefined THEN issue.parentKey
    ELSE "Uncategorized Work"

\* epicData: spent and estimate of one epic, in hours
epicHours(i, name, field) ==
    toHours(SumField(SelectSeqBy(i, {x \in Range(i) : epicName(x) = name}),
                     field))

\* variant: the estimate is not tested, spent time on an estimate of 0 is
\* over budget
isOverBudgetAnyEstimate(issue) ==
    /\ issue.timeSpentSeconds # Absent
    /\ issue.timeEstimateSeconds # Absent
    /\ issue.timeSpentSeconds[1] > issue.timeEstimateSeconds[1]

\* stats: i.timeEstimateSeconds > 0 && i.timeSpentSeconds >
\* i.timeEstimateSeconds; a comparison with undefined is false
isOverBudget(issue) ==
    /\ FieldPositive(issue.timeEstimateSeconds)
    /\ issue.timeSpentSeconds # Absent
    /\ issue.timeSpentSeconds[1] > issue.timeEstimateSeconds[1]

RECURSIVE InsertOverBudget(_, _)
\* the place of an issue in a list sorted by (b.spent - b.estimate) -
\* (a.spent - a.estimate): after the issues that are not less over budget
InsertOverBudget(sorted, issue) ==
    LET over(x) == x.timeSpentSeconds[1] - x.timeEstimateSeconds[1]
    IN IF sorted = <<>> THEN <<issue>>
       ELSE IF over(issue) - over(Head(sorted)) <= 0
            THEN <<Head(sorted)>> \o InsertOverBudget(Tail(sorted), issue)
            ELSE <<issue>> \o sorted

RECURSIVE SortOverBudget(_, _)
\* overBudgetIssues.sort(...), which is stable
SortOverBudget(sorted, list) ==
    IF list = <<>> THEN sorted
    ELSE SortOverBudget(InsertOverBudget(sorted, Head(list)), Tail(list))

\* stats: the issues over budget and their count
timeStats(i) ==
    LET activeIssues == SelectSeqBy(i, {x \in Range(i) :
                            \/ FieldPositive(x.timeSpentSeconds)
                            \/ FieldPositive(x.timeEstimateSeconds)})
        overBudgetIssues == SelectSeqBy(activeIssues,
                                {x \in Range(activeIssues) : isOverBudget(x)})
    IN [overBudgetCount |-> Len(overBudgetIssues),
        overBudgetIssues |-> SortOverBudget(<<>>, overBudgetIssues)]

\* what the TimeTrackingDashboard component computes from its props
TimeTrackingDashboard(i, t) ==
    [accuracyDistribution |-> accuracyDistribution(i),
     stats |-> timeStats(i)]

(* ------------------------- ClientProfitability ------------------------- *)

\* issue.key.split('-')[0], for the keys that occur
KeyPrefix(key) ==
    CASE key \in {"PROJ-101", "PROJ-102", "PROJ-103", "PROJ-104",
                  "PROJ-105", "PROJ-106"} -> "PROJ"
      [] OTHER -> "K"

\* clientData: the group an issue is counted in
GroupKey(issue, groupBy) ==
    IF groupBy = "project"
    THEN IF issue.projectKey # Undefined THEN issue.projectKey
         ELSE KeyPrefix(issue.key)
    ELSE IF issue.parentSummary # Undefined THEN issue.parentSummary
         ELSE IF issue.parentKey # Undefined THEN issue.parentKey
         ELSE "Independent Tasks"

\* clientData: Math.round((seconds / 3600) * 10) / 10 of the group
hoursSpent(i, groupBy, key) ==
    LET seconds == SumField(SelectSeqBy(i, {x \in Range(i) :
                                GroupKey(x, groupBy) = key}),
                            "timeSpentSeconds")
        tenths == MathRound(JSDivN(JSTimes(seconds, 10), Finite(3600, 1)))
    IN JSDivN(tenths, Finite(10, 1))

\* clientData: hoursSpent > 0 ? revenue / hoursSpent : 0
profitabilityIndex(i, groupBy, key, revenue) ==
    LET hours == hoursSpent(i, groupBy, key)
    IN IF JSPositive(hours) THEN JSDivN(Finite(revenue, 1), hours)
       ELSE Finite(0, 1)

\* revenue values the user enters for a group
Revenues == {0, 1000}

\* x < y on JavaScript numbers that are finite or NaN; false for NaN
JSLess(x, y) ==
    /\ x.kind = "finite" /\ y.kind = "finite"
    /\ x.num * y.den < y.num * x.den

\* Math.max(...values, k): NaN once a value is NaN
MathMax(values, k) ==
    IF \E v \in values : v.kind = "NaN" THEN NaN
    ELSE CHOOSE m \in values \cup {Finite(k, 1)} :
            \A v \in values \cup {Finite(k, 1)} : ~JSLess(m, v)

\* clientData: one row per group in the order the groups were met, without
\* the empty ones, sorted by descending revenue
clientData(i, groupBy, revenueMap) ==
    LET key(k) == GroupKey(i[k], groupBy)
        first == SelectSeqBy([k \in 1..Len(i) |-> k],
                     {k \in 1..Len(i) : \A j \in 1..(k-1) : key(j) # key(k)})
        revenue(g) == IF g \in DOMAIN revenueMap THEN revenueMap[g] ELSE 0
        rows == [n \in 1..Len(first) |->
                    [id |-> key(first[n]),
                     hoursSpent |-> hoursSpent(i, groupBy, key(first[n])),
                     revenue |-> revenue(key(first[n])),
                     profitabilityIndex |->
                         profitabilityIndex(i, groupBy, key(first[n]),
                                            revenue(key(first[n])))]]
        shown == SelectSeqBy(rows, {d \in Range(rows) :
                     \/ JSLess(Finite(1, 10), d.hoursSpent)
                     \/ d.revenue > 0})
        \* the stable sort by b.revenue - a.revenue
        place(n) == Cardinality({m \in 1..Len(shown) :
                        \/ shown[m].revenue > shown[n].revenue
                        \/ shown[m].revenue = shown[n].revenue /\ m < n}) + 1
    IN [n \in 1..Len(shown) |->
           shown[CHOOSE m \in 1..Len(shown) : place(m) = n]]

\* getQuadrant, of a group and the two thresholds of the chart
getQuadrant(hours, rev, avgHours, avgRevenue) ==
    IF JSLess(avgRevenue, Finite(rev, 1)) /\ JSLess(hours, avgHours)
    THEN "Cash Cow"
    ELSE IF /\ JSLess(avgRevenue, Finite(rev, 1))
            /\ hours.kind = "finite" /\ avgHours.kind = "finite"
            /\ ~JSLess(hours, avgHours)
    THEN "Strategic Partner"
    ELSE IF /\ avgRevenue.kind = "finite"
            /\ ~JSLess(avgRevenue, Finite(rev, 1))
            /\ JSLess(hours, avgHours)
    THEN "Standard"
    ELSE "Drain / Noisy"

\* what the ClientProfitability component computes from its props and
\* the revenues entered: the rows of the matrix with their quadrant
ClientProfitability(i, groupBy, revenueMap) ==
    LET rows == clientData(i, groupBy, revenueMap)
        maxHours == MathMax({d.hoursSpent : d \in Range(rows)}, 10)
        maxRevenue ==
            MathMax({Finite(d.revenue, 1) : d \in Range(rows)}, 1000)
        avgHours == JSDivN(maxHours, Finite(2, 1))
        avgRevenue == JSDivN(maxRevenue, Finite(2, 1))
    IN [n \in 1..Len(rows) |->
           [id |-> rows[n].id,
            hoursSpent |-> rows[n].hoursSpent,
            revenue |-> rows[n].revenue,
            quadrant |-> getQuadrant(rows[n].hoursSpent, rows[n].revenue,
                                     avgHours, avgRevenue)]]

(* ---------------------------- specification ---------------------------- *)

Next ==
    \/ \E k \in ProjectKeys : JiraConnectCall(k)
    \/ ValidateOk
    \/ ValidateFail
    \/ \E w \in {"team", "sprints", "issues"} : FetchFail(w)
    \/ \E b \in FetchedBatches : ConnectDone(b)
    \/ \E j \in PastedTexts : handleManualSubmit(j)
    \/ \E k \in Range(projects) : handleRemoveProject(k)
    \/ \E m \in EditIds, c \in EditCapacities : handleCapacityChange(m, c)
    \/ handleGenerateData
    \/ GenerateDone
    \/ GenerateFail
    \/ Reload

Spec == Init /\ [][Next]_vars

(* ------------- functions and components applied on their own ----------- *)

\* props of the Dashboard: one or two members, up to MaxPropIssues issues,
\* sprint lists with none, one and two active sprints
MaxPropIssues == 2

PropMember(id, name, cap) == Member(id, name, "Developer", "", cap, <<>>)

PropTeams ==
    { <<PropMember("u1", "Pat Lee", c)>> : c \in {-5, 0, 10, 20, 41} }
    \cup { <<PropMember("u1", "Pat Lee", 20), PropMember("u2", "Sam Roy", 10)>> }

PropIssue(id, status, assignee, points, sprint) ==
    Issue(id, "P-" \o id, "summary of " \o id, "Story", "Medium", status,
          assignee, points, sprint)

PropIssueSet ==
    { PropIssue("1", "To Do", "u1", 17, "s1"),
      PropIssue("2", "In Progress", "u1", 1, "s2"),
      PropIssue("3", "In Review", "u1", 35, "s1"),
      PropIssue("4", "Done", "u1", 13, "s1"),
      PropIssue("5", "To Do", "u2", 13, "s2") }

\* the lists of distinct elements of a set, up to a length
ListsOf(S, n) ==
    UNION { {l \in [1..k -> S] : \A a, b \in 1..k : a # b => l[a] # l[b]} :
            k \in 0..n }

PropSprint(id, state) ==
    SprintRec(id, "Sprint " \o id,
              IF id = "s2" THEN "2024-01-01" ELSE "2024-01-15",
              IF id = "s2" THEN "2024-01-14" ELSE "2024-01-28", state)

PropSprints ==
    { <<>>,
      <<PropSprint("s1", "active")>>,
      <<PropSprint("s2", "active"), PropSprint("s1", "active")>>,
      <<PropSprint("s1", "closed"), PropSprint("s2", "future")>>,
      <<PropSprint("s1", "closed"), PropSprint("s2", "active")>>,
      <<PropSprint("s3", "future"), PropSprint("s1", "closed"),
        PropSprint("s2", "closed")>> }

DashboardCalls ==
    { [fn |-> "Dashboard", issues |-> i, team |-> t, sprints |-> s] :
        i \in ListsOf(PropIssueSet, MaxPropIssues), t \in PropTeams, s \in PropSprints }

\* issues with time tracking: Jira counts of seconds, or no field at all
TimedIssue(id, status, spent, estimate) ==
    [Issue(id, "T-" \o id, "summary of " \o id, "Task", "Medium", status,
           "u1", 1, Undefined)
        EXCEPT !.timeSpentSeconds = spent, !.timeEstimateSeconds = estimate]

TimedIssueSet ==
    { TimedIssue("1", "Done", Num(5400), Num(3600)),
      TimedIssue("2", "To Do", Num(1100), Num(1000)),
      TimedIssue("3", "In Progress", Num(1101), Num(1000)),
      TimedIssue("4", "Done", Num(900), Num(1000)),
      TimedIssue("5", "Done", Num(500), Num(1000)),
      TimedIssue("6", "In Progress", Num(500), Num(1000)),
      TimedIssue("7", "To Do", Absent, Num(1000)),
      TimedIssue("8", "To Do", Num(500), Num(0)),
      TimedIssue("9", "Done", Absent, Absent) }

TimeTrackingCalls ==
    { [fn |-> "TimeTrackingDashboard", issues |-> i, team |-> t] :
        i \in ListsOf(TimedIssueSet, MaxPropIssues), t \in {<<PropMember("u1", "Pat Lee", 20)>>} }


StatusCalls ==
    { [fn |-> "mapStatus", status |-> n, statusCategory |-> c] :
        n \in {Name.Done, Name.CLOSED, Name.Closed, Name.Open, Name.ToDo,
                Name.InProgress, Name.CodeReview, Name.QABacklog},
        c \in {NoText, Text(Name.ToDo), Text(Name.InProgress), Text(Name.Done)} }

\* props of the ClientProfitability matrix: issues of two projects with
\* time logged, one without a time field, and the revenues entered
ClientIssue(id, projectKey, spent) ==
    [Issue(id, projectKey \o "-" \o id, "summary of " \o id, "Task", "Medium",
           "To Do", "u1", 1, Undefined)
        EXCEPT !.projectKey = projectKey, !.timeSpentSeconds = spent]

ClientCalls ==
    { [fn |-> "ClientProfitability", issues |-> i, groupBy |-> "project",
       revenueMap |-> r] :
        i \in ListsOf({ ClientIssue("1", "ACME", Num(7200)),
                        ClientIssue("2", "ACME", Num(72000)),
                        ClientIssue("3", "BETA", Num(36000)),
                        ClientIssue("4", "BETA", Absent) }, MaxPropIssues),
        r \in [{"ACME", "BETA"} -> {0, 1000, 4000}] }

\* names of issue types and of priorities as a Jira site may hold them
NormalizerCalls ==
    { [fn |-> "mapIssueType", type |-> t] : t \in
        { <<>>,
          <<"B", "u", "g">>,
          <<"B", "U", "G", " ", "f", "i", "x">>,
          <<"S", "u", "b", "-", "t", "a", "s", "k">>,
          <<"T", "a", "s", "k", " ", "B", "u", "g">>,
          <<"E", "p", "i", "c", " ", "T", "a", "s", "k">>,
          <<"E", "p", "i", "c">>,
          <<"S", "t", "o", "r", "y">>,
          <<"D", "e", "b", "u", "g", " ", "E", "p", "i", "c">> } }
    \cup { [fn |-> "mapPriority", priority |-> t] : t \in
        { <<>>,
          <<"H", "i", "g", "h", "e", "s", "t">>,
          <<"B", "L", "O", "C", "K", "E", "R">>,
          <<"H", "i", "g", "h">>,
          <<"C", "r", "i", "t", "i", "c", "a", "l">>,
          <<"L", "o", "w">>,
          <<"M", "i", "n", "o", "r">>,
          <<"M", "e", "d", "i", "u", "m">>,
          <<"L", "o", "w", "e", "s", "t", " ", "H", "i", "g", "h">>,
          <<"H", "i", "g", "h", " ", "M", "i", "n", "o", "r">> } }

\* responses of the assignable-user search: people, an app, a customer
\* and a record without accountType
TeamCalls ==
    { [fn |-> "parseTeamFromRaw", users |-> u] : u \in
        ListsOf({ RawAssignee("u1", "Alice", "atlassian"),
                  RawAssignee("u9", "Nina", "atlassian"),
                  RawAssignee("b7", "Deploy Bot", "app"),
                  RawAssignee("c3", "Portal Customer", "customer"),
                  RawAssignee("x0", "Former User", Undefined) },
                MaxPropIssues) }

ManualInputCalls ==
    { [fn |-> "handleManualSubmit", jsonInput |-> j] : j \in JsonInputs }

PureCalls ==
    DashboardCalls \cup TimeTrackingCalls \cup StatusCalls
    \cup ManualInputCalls \cup ClientCalls \cup NormalizerCalls
    \cup TeamCalls

\* the App is left as it starts; one application is pending
PureInit ==
    /\ team = INITIAL_TEAM
    /\ issues = MOCK_ISSUES
    /\ sprints = INITIAL_SPRINTS
    /\ projects = <<>>
    /\ storage = NoStorage
    /\ isConnecting = FALSE
    /\ conn = Idle
    /\ connectResult = "none"
    /\ alertMsg = ""
    /\ lastOp = Op("init", "", NoData, "", 0)
    /\ ops = 0
    /\ error = Null
    /\ isGenerating = FALSE
    /\ call \in PureCalls
    /\ ret = NoRet

Return(value) ==
    /\ ~ret.done
    /\ ret' = [done |-> TRUE, value |-> value]
    /\ UNCHANGED <<data, storage, isConnecting, conn, connectResult,
                   alertMsg, lastOp, ops, error, call, isGenerating>>

RenderDashboard ==
    /\ call.fn = "Dashboard"
    /\ Return(Dashboard(call.issues, call.team, call.sprints))

RenderTimeTracking ==
    /\ call.fn = "TimeTrackingDashboard"
    /\ Return(TimeTrackingDashboard(call.issues, call.team))

CallMapStatus ==
    /\ call.fn = "mapStatus"
    /\ Return(mapStatus(call.status, call.statusCategory))

CallMapIssueType ==
    /\ call.fn = "mapIssueType"
    /\ Return(mapIssueType(call.type))

CallMapPriority ==
    /\ call.fn = "mapPriority"
    /\ Return(mapPriority(call.priority))

CallParseTeamFromRaw ==
    /\ call.fn = "parseTeamFromRaw"
    /\ Return(parseTeamFromRaw(call.users))

CallParseManualInput ==
    /\ call.fn = "handleManualSubmit"
    /\ Return(ParseManualInput(call.jsonInput))

RenderClientProfitability ==
    /\ call.fn = "ClientProfitability"
    /\ Return(ClientProfitability(call.issues, call.groupBy, call.revenueMap))

PureNext ==
    \/ RenderDashboard
    \/ RenderTimeTracking
    \/ CallMapStatus
    \/ CallMapIssueType
    \/ CallMapPriority
    \/ CallParseTeamFromRaw
    \/ CallParseManualInput
    \/ RenderClientProfitability

PureSpec == PureInit /\ [][PureNext]_vars


(* ------------------------ properties: vocabulary ----------------------- *)

\* the step is a call of handleJiraConnect (rejected or started)
IsConnectCallStep == lastOp'.op \in {"connectRejected", "connectCall"}

\* the step is the failure of an import in flight
IsConnectFailStep ==
    lastOp'.op \in {"validateFail", "fetchFail:team", "fetchFail:sprints",
                    "fetchFail:issues"}

\* the step merges an import: a manual import, or a live import completing
IsImportStep == lastOp'.op \in {"connectDone", "manualImport"}

\* the lists the importing handler reads: the current state for a manual
\* import, the state captured at the call for a live import
SeenTeam == IF lastOp'.op = "connectDone" THEN conn.team ELSE team
SeenIssues == IF lastOp'.op = "connectDone" THEN conn.issues ELSE issues
SeenSprints == IF lastOp'.op = "connectDone" THEN conn.sprints ELSE sprints
SeenProjects == IF lastOp'.op = "connectDone" THEN conn.projects ELSE projects

\* the import ran one after the other with the rest: nothing changed between
\* its call and its merge
IsSequentialImport ==
    /\ IsImportStep
    /\ <<SeenTeam, SeenIssues, SeenSprints, SeenProjects>> = data

\* entry k of list carries every field of x, and the tag
IsTagged(y, x, tag) ==
    /\ y.projectKey = tag
    /\ [y EXCEPT !.projectKey = x.projectKey] = x

\* list is exactly prefix followed by the entries of batch, each tagged
IsAppended(list, prefix, batch, tag) ==
    /\ Len(list) = Len(prefix) + Len(batch)
    /\ \A k \in 1..Len(prefix) : list[k] = prefix[k]
    /\ \A k \in 1..Len(batch) : IsTagged(list[Len(prefix) + k], batch[k], tag)

UniqueIds(list) ==
    \A j, k \in 1..Len(list) : list[j].id = list[k].id => j = k

\* the positions of list whose tag is not tag, and the n-th of them
KeptPositions(list, tag) == {k \in 1..Len(list) : list[k].projectKey # tag}
NthKept(list, tag, n) ==
    CHOOSE k \in KeptPositions(list, tag) :
        Cardinality({j \in KeptPositions(list, tag) : j <= k}) = n

\* filtered is list without the entries tagged tag, order kept
IsFilteredOf(filtered, list, tag) ==
    /\ Len(filtered) = Cardinality(KeptPositions(list, tag))
    /\ \A n \in 1..Len(filtered) : filtered[n] = list[NthKept(list, tag, n)]

(* ------------------------------- claims -------------------------------- *)

\* C1: a handleJiraConnect call whose project key is already in projects is
\* rejected at once: no fetch is started, team, issues, sprints, projects
\* and the stored workspace stay as they are, the user is told, and the
\* call returns false.
C1_DuplicateProjectRejected ==
    [][ (IsConnectCallStep /\ Includes(projects, lastOp'.key)) =>
          /\ UNCHANGED <<team, issues, sprints, projects, storage>>
          /\ UNCHANGED <<conn, isConnecting>>
          /\ Len(issues') = Len(issues)
          /\ connectResult' = "false"
          /\ alertMsg' = "Project " \o lastOp'.key \o " is already connected."
      ]_vars

\* a second import of a connected project was just rejected
C1_Witness ==
    /\ lastOp.op = "connectRejected"
    /\ Includes(projects, lastOp.key)
    /\ \E k \in 1..Len(issues) : issues[k].projectKey = lastOp.key
    /\ connectResult = "false"

\* C2: an import that runs one after the other with the rest leaves as
\* issues the issues of the sources imported before it (none when it is the
\* first import on the defaults) followed by its own issues, each with its
\* own tag and none dropped, whatever ids or keys they share with the rest.
C2_ImportsAreAdditive ==
    [][ IsSequentialImport =>
          /\ IsAppended(issues',
                        IF projects = <<>> THEN <<>> ELSE issues,
                        lastOp'.data.issues, lastOp'.key)
          /\ projects # <<>> =>
                Len(issues') = Len(issues) + Len(lastOp'.data.issues)
      ]_vars

\* two different sources are merged, the second just now, and they hold an
\* issue with the same id and key
C2_Witness ==
    /\ lastOp.op \in {"connectDone", "manualImport"}
    /\ Len(projects) = 2
    /\ projects[1] # projects[2]
    /\ projects[2] = lastOp.key
    /\ \E j, k \in 1..Len(issues) :
          /\ j < k
          /\ issues[j].id = issues[k].id
          /\ issues[j].key = issues[k].key
          /\ issues[j].projectKey = projects[1]
          /\ issues[k].projectKey = projects[2]

\* C3: after an import the team holds one entry per id; an id the import
\* supplies carries the attributes the import supplied (the last record of
\* that id in the batch), and an id it does not supply keeps its entry.
C3_TeamLastWriteWins ==
    [][ IsImportStep =>
          LET batch == lastOp'.data.team
              base == IF SeenProjects = <<>> THEN <<>> ELSE SeenTeam
              last(id) == batch[CHOOSE k \in 1..Len(batch) :
                                   /\ batch[k].id = id
                                   /\ \A j \in (k+1)..Len(batch) :
                                          batch[j].id # id]
          IN /\ UniqueIds(team')
             /\ \A m \in Range(batch) : last(m.id) \in Range(team')
             /\ \A m \in Range(base) :
                   (\A b \in Range(batch) : b.id # m.id) => m \in Range(team')
             /\ \A m \in Range(team') :
                   m \in Range(batch) \cup Range(base)
      ]_vars

\* u1 came as Alice with the first source and as Alicia with the second,
\* merged just now: the team has the one u1, named Alicia
C3_Witness ==
    /\ lastOp.op \in {"connectDone", "manualImport"}
    /\ Len(projects) = 2
    /\ Alicia \in Range(lastOp.data.team)
    /\ \E k \in 1..Len(issues) :
          issues[k].id = IssueTwo.id /\ issues[k].projectKey = projects[1]
    /\ Cardinality({k \in 1..Len(team) : team[k].id = "u1"}) = 1
    /\ \A k \in 1..Len(team) : team[k].id = "u1" => team[k].name = "Alicia"

\* C4: an import whose handler finds projects empty replaces the working
\* set: team, issues and sprints are the batch (issues and sprints tagged),
\* no entry of the former working set remains, projects is the new tag.
C4_FirstImportReplaces ==
    [][ (IsImportStep /\ SeenProjects = <<>>) =>
          /\ team' = lastOp'.data.team
          /\ IsAppended(issues', <<>>, lastOp'.data.issues, lastOp'.key)
          /\ IsAppended(sprints', <<>>, lastOp'.data.sprints, lastOp'.key)
          /\ projects' = <<lastOp'.key>>
          /\ \A x \in Range(issues') : x.projectKey = lastOp'.key
          /\ \A x \in Range(sprints') : x.projectKey = lastOp'.key
      ]_vars

\* the first import was just merged: no default member, issue or sprint is
\* left
C4_Witness ==
    /\ lastOp.op \in {"connectDone", "manualImport"}
    /\ projects = <<lastOp.key>>
    /\ lastOp.data.issues # <<>>
    /\ Range(team) \cap Range(INITIAL_TEAM) = {}
    /\ Range(issues) \cap Range(MOCK_ISSUES) = {}
    /\ Range(sprints) \cap Range(INITIAL_SPRINTS) = {}
    /\ Len(issues) = Len(lastOp.data.issues)

\* C5: removing the only project left resets team, issues and sprints to
\* INITIAL_TEAM, MOCK_ISSUES and INITIAL_SPRINTS and empties projects.
C5_RemovingLastProjectResets ==
    [][ (lastOp'.op = "remove" /\ projects = <<lastOp'.key>>) =>
          /\ team' = INITIAL_TEAM
          /\ issues' = MOCK_ISSUES
          /\ sprints' = INITIAL_SPRINTS
          /\ projects' = <<>>
      ]_vars

\* the only project was just removed, after an import and one more
\* operation
C5_Witness ==
    /\ lastOp.op = "remove"
    /\ projects = <<>>
    /\ ops >= 3
    /\ team = INITIAL_TEAM /\ issues = MOCK_ISSUES /\ sprints = INITIAL_SPRINTS

\* C6: removing project T while another project remains drops the issues
\* and sprints tagged T and no others, keeps the order of the rest, takes T
\* out of projects and leaves the team as it is.
C6_RemoveKeepsOthers ==
    [][ (/\ lastOp'.op = "remove"
         /\ \E p \in Range(projects) : p # lastOp'.key) =>
          /\ IsFilteredOf(issues', issues, lastOp'.key)
          /\ IsFilteredOf(sprints', sprints, lastOp'.key)
          /\ \A x \in Range(issues') \cup Range(sprints') :
                x.projectKey # lastOp'.key
          /\ ~Includes(projects', lastOp'.key)
          /\ \A p \in Range(projects) :
                p # lastOp'.key => Includes(projects', p)
          /\ Len(projects') < Len(projects)
          /\ team' = team
      ]_vars

\* a project was just removed, another remains, and the team still has a
\* member that no remaining issue is assigned to
C6_Witness ==
    /\ lastOp.op = "remove"
    /\ projects # <<>>
    /\ issues # <<>>
    /\ \E m \in Range(team) : \A x \in Range(issues) : x.assigneeId # m.id

\* C7: every step of a live import other than its completion leaves team,
\* issues, sprints and projects as they are; a failed validation or fetch
\* also leaves the stored workspace and ends the call with the error
\* thrown; the completion sets all four to the merge of the fetched batch
\* into the state the call captured.
C7_LiveImportAllOrNothing ==
    [][ /\ (IsConnectCallStep \/ lastOp'.op = "validateOk") =>
              UNCHANGED <<team, issues, sprints, projects>>
        /\ IsConnectFailStep =>
              /\ UNCHANGED <<team, issues, sprints, projects, storage>>
              /\ connectResult' = "throw"
              /\ ~isConnecting'
        /\ lastOp'.op = "connectDone" =>
              LET first == conn.projects = <<>>
              IN /\ projects' = Append(conn.projects, lastOp'.key)
                 /\ IsAppended(issues', IF first THEN <<>> ELSE conn.issues,
                               lastOp'.data.issues, lastOp'.key)
                 /\ IsAppended(sprints', IF first THEN <<>> ELSE conn.sprints,
                               lastOp'.data.sprints, lastOp'.key)
                 /\ \A m \in Range(lastOp'.data.team) : m \in Range(team')
                 /\ connectResult' = "true"
      ]_vars

\* a fetch of a live import just failed
C7_Witness ==
    /\ lastOp.op = "fetchFail:issues"
    /\ connectResult = "throw"
    /\ ~isConnecting
    /\ ~Includes(projects, lastOp.key)

\* C8: handleCapacityChange(id, c) sets capacityPerSprint of the entry with
\* that id to c and changes nothing else: the other entries, the other
\* fields, the order of the team, issues, sprints and projects stay, an id
\* of no member changes nothing, and the result is stored.
C8_CapacityEditIsTargeted ==
    [][ lastOp'.op = "capacity" =>
          /\ Len(team') = Len(team)
          /\ \A k \in 1..Len(team) :
                /\ team[k].id # lastOp'.id => team'[k] = team[k]
                /\ team[k].id = lastOp'.id =>
                      /\ team'[k].capacityPerSprint = lastOp'.cap
                      /\ [team'[k] EXCEPT !.capacityPerSprint =
                              team[k].capacityPerSprint] = team[k]
          /\ Cardinality({k \in 1..Len(team) : team[k].id = lastOp'.id}) <= 1
          /\ UNCHANGED <<issues, sprints, projects>>
          /\ storage' = [present |-> TRUE, team |-> team', issues |-> issues,
                         sprints |-> sprints, projects |-> projects]
      ]_vars

\* a capacity was just edited: one member has the new value, another one
\* has kept a different one, and the stored team is the edited team
C8_Witness ==
    /\ lastOp.op = "capacity"
    /\ \E m \in Range(team) :
          m.id = lastOp.id /\ m.capacityPerSprint = lastOp.cap
    /\ \E m \in Range(team) :
          m.id # lastOp.id /\ m.capacityPerSprint # lastOp.cap
    /\ storage.present /\ storage.team = team

\* the sum of the story points of the issues at the positions in idx
RECURSIVE PointsAt(_, _)
PointsAt(list, idx) ==
    IF idx = {} THEN 0
    ELSE LET k == CHOOSE k \in idx : TRUE
         IN list[k].storyPoints + PointsAt(list, idx \ {k})

\* the open load of a member: the issues assigned to it that are not Done
OpenLoad(m) ==
    PointsAt(issues, {k \in 1..Len(issues) :
                        issues[k].assigneeId = m.id
                        /\ issues[k].status # "Done"})

\* x is the rational n / d (d > 0)
IsRatio(x, n, d) == x.kind = "finite" /\ x.num * d = n * x.den

\* C9: on every snapshot each displayed ratio is a finite number: sprint
\* health, completion rate, team velocity, utilization and realization of
\* every member on the dashboard, utilization of every active member in
\* the planner, estimate accuracy, profitability index of every group.
C9_RatiosAreFinite ==
    /\ IsFiniteNumber(SprintHealth(issues, team, sprints))
    /\ IsFiniteNumber(CompletionRate(issues, team, sprints))
    /\ IsFiniteNumber(TeamVelocity(issues, team, sprints))
    /\ \A m \in Range(team) :
          /\ IsFiniteNumber(rawUtilization(m, issues))
          /\ IsFiniteNumber(utilization(m, issues))
          /\ IsFiniteNumber(realization(m, issues, sprints))
    /\ \A m \in Range(activeTeamMembers(team, issues)) :
          IsFiniteNumber(PlannerUtilization(m, issues))
    /\ IsFiniteNumber(Accuracy(issues))
    /\ \A g \in {"project", "epic"}, r \in Revenues, x \in Range(issues) :
          IsFiniteNumber(profitabilityIndex(issues, g, GroupKey(x, g), r))

\* C10 as stated: rawUtilization is 100 * open load / capacity, and 0 when
\* the capacity is 0.
C10_RawUtilizationAsStated ==
    \A m \in Range(team) :
        IF m.capacityPerSprint = 0
        THEN IsRatio(rawUtilization(m, issues), 0, 1)
        ELSE /\ m.capacityPerSprint > 0 =>
                  IsRatio(rawUtilization(m, issues), 100 * OpenLoad(m),
                          m.capacityPerSprint)
             /\ m.capacityPerSprint < 0 =>
                  IsRatio(rawUtilization(m, issues), -100 * OpenLoad(m),
                          -m.capacityPerSprint)

\* C10 (amended): rawUtilization is 100 * open load / capacity when the
\* capacity is positive, and 0 when the capacity is 0 or negative.
C10_RawUtilization ==
    \A m \in Range(team) :
        IF m.capacityPerSprint > 0
        THEN IsRatio(rawUtilization(m, issues), 100 * OpenLoad(m),
                     m.capacityPerSprint)
        ELSE IsRatio(rawUtilization(m, issues), 0, 1)

\* one member has open load and a capacity of 0 or less, another has open
\* load and a positive capacity
C10_Witness ==
    /\ \E m \in Range(team) : m.capacityPerSprint <= 0 /\ OpenLoad(m) > 0
    /\ \E m \in Range(team) : m.capacityPerSprint > 0 /\ OpenLoad(m) > 0

(* ------------------------------- C11 ----------------------------------- *)

\* the open load of the member with this id among the issues of a call
OpenLoadIn(list, id) ==
    PointsAt(list, {k \in 1..Len(list) :
                      list[k].assigneeId = id /\ list[k].status # "Done"})

\* the member is above 85 percent of a positive capacity, in exact
\* arithmetic
IsAbove85(member, list) ==
    /\ member.capacityPerSprint > 0
    /\ 100 * OpenLoadIn(list, member.id) > 85 * member.capacityPerSprint

\* C11: a member is flagged at risk if and only if its raw utilization,
\* neither rounded nor clamped, is strictly above 85: every row of the
\* burnout data carries the flag exactly when 100 * load > 85 * capacity,
\* and the at-risk list holds exactly the members for which that is so.
C11_RiskIffRawAbove85 ==
    (call.fn = "Dashboard" /\ ret.done) =>
        /\ \A m \in Range(call.team) :
              /\ \A d \in Range(ret.value.burnoutData) :
                    d.fullName = m.name =>
                        (d.isRisk <=> IsAbove85(m, call.issues))
              /\ (\E d \in Range(ret.value.atRiskMembers) :
                     d.fullName = m.name) <=> IsAbove85(m, call.issues)

\* a rendering in which one member is at exactly 85 percent and not at
\* risk, and another is above 120 percent, shown as 120, and at risk
C11_Witness ==
    /\ call.fn = "Dashboard"
    /\ ret.done
    /\ \E d, e \in Range(ret.value.burnoutData) :
          /\ d.rawUtilization = Finite(85, 1)
          /\ 100 * d.assigned = 85 * d.capacity
          /\ ~d.isRisk
          /\ e.utilization = Finite(120, 1)
          /\ e.rawUtilization.num > 120
          /\ e.isRisk

(* ------------------------------- C12 ----------------------------------- *)

\* the positions of the issues of a list that have a positive estimate
Estimated(list) ==
    {k \in 1..Len(list) : list[k].timeEstimateSeconds # Absent
                           /\ list[k].timeEstimateSeconds[1] > 0}

\* spent / estimate is above 11/10, below 9/10, in exact arithmetic; an
\* issue without time spent has no such ratio
SpentAbove(x) ==
    /\ x.timeSpentSeconds # Absent
    /\ 10 * x.timeSpentSeconds[1] > 11 * x.timeEstimateSeconds[1]
SpentBelow(x) ==
    /\ x.timeSpentSeconds # Absent
    /\ 10 * x.timeSpentSeconds[1] < 9 * x.timeEstimateSeconds[1]

\* the value of the entry with this name
CountOf(distribution, name) ==
    LET k == CHOOSE k \in 1..Len(distribution) : distribution[k].name = name
    IN distribution[k].value

\* C12: the accuracy distribution counts every issue with a positive time
\* estimate in exactly one class and no other issue: Over when spent /
\* estimate > 1.1 whatever the status, otherwise Under when the ratio is
\* below 0.9 and the status is Done, otherwise OnTrack; the three counts
\* sum to the number of issues with a positive estimate.
C12_AccuracyClasses ==
    (call.fn = "TimeTrackingDashboard" /\ ret.done) =>
        LET l == call.issues
            d == ret.value.accuracyDistribution
            over == {k \in Estimated(l) : SpentAbove(l[k])}
            under == {k \in Estimated(l) \ over :
                        SpentBelow(l[k]) /\ l[k].status = "Done"}
        IN /\ CountOf(d, "Over Budget") = Cardinality(over)
           /\ CountOf(d, "Under Budget") = Cardinality(under)
           /\ CountOf(d, "On Track") =
                 Cardinality(Estimated(l) \ (over \cup under))
           /\ CountOf(d, "Over Budget") + CountOf(d, "Under Budget")
                 + CountOf(d, "On Track") = Cardinality(Estimated(l))

\* a Done issue at 1.5 times its estimate counted Over, next to an issue
\* below 0.9 that is not Done and counted OnTrack
C12_Witness ==
    /\ call.fn = "TimeTrackingDashboard"
    /\ ret.done
    /\ \E a, b \in Range(call.issues) :
          /\ a.status = "Done" /\ SpentAbove(a)
          /\ FieldPositive(a.timeEstimateSeconds)
          /\ b.status # "Done" /\ SpentBelow(b)
          /\ FieldPositive(b.timeEstimateSeconds)
    /\ CountOf(ret.value.accuracyDistribution, "Over Budget") = 1
    /\ CountOf(ret.value.accuracyDistribution, "On Track") = 1
    /\ CountOf(ret.value.accuracyDistribution, "Under Budget") = 0

(* ------------------------------- C13 ----------------------------------- *)

\* the status a Jira status category stands for
StatusOfCategory(category) ==
    LET c == toLowerCase(category)
    IN IF c = Word.done THEN "Done"
       ELSE IF c = Word.in_progress THEN "In Progress"
       ELSE "To Do"

\* the status the text of a status name stands for
StatusOfName(name) ==
    LET n == toLowerCase(name)
    IN IF includes(n, Word.done) \/ includes(n, Word.closed) THEN "Done"
       ELSE IF includes(n, Word.progress) THEN "In Progress"
       ELSE IF includes(n, Word.review) \/ includes(n, Word.qa) THEN "In Review"
       ELSE "To Do"

\* C13: when a status category is supplied the normalized status is the
\* one the category stands for, whatever the status name contains; the
\* status name is matched (done / closed, progress, review / qa, else To
\* Do) only when no category is supplied.
C13_CategoryDecides ==
    (call.fn = "mapStatus" /\ ret.done) =>
        IF call.statusCategory # NoText
        THEN ret.value = StatusOfCategory(call.statusCategory[1])
        ELSE ret.value = StatusOfName(call.status)

(* ------------------------------- C14 ----------------------------------- *)

\* the step ends an import of a batch without any issue: a live import
\* whose search returned no issue, or a pasted text that was rejected
IsEmptyImportStep ==
    \/ lastOp'.op = "connectDone" /\ lastOp'.data.issues = <<>>
    \/ lastOp'.op = "manualRejected"

\* C14: an import whose batch is unparseable, has no issues collection or
\* normalizes to zero issues, pasted or fetched, sets an error message and
\* imports nothing: team, issues, sprints and sources stay as they are.
C14_EmptyBatchImportsNothing ==
    [][IsEmptyImportStep =>
          /\ UNCHANGED <<team, issues, sprints, projects>>
          /\ error' # Null]_vars

(* ------------------------------- C15 ----------------------------------- *)

\* the records of a pasted export that have a fields object
WellFormed(list) == SelectSeqBy(list, {i \in Range(list) : i.fields # <<>>})

\* C15: a pasted export in which some record has no fields object, next to
\* records that have one, does not fail as a whole: the batch handed to
\* the import holds the normalized well-formed records, all of them and
\* in their order.
C15_MalformedRecordSkipped ==
    (/\ call.fn = "handleManualSubmit"
     /\ ret.done
     /\ call.jsonInput.ok
     /\ call.jsonInput.issues # <<>>
     /\ WellFormed(call.jsonInput.issues[1]) # <<>>) =>
        LET kept == WellFormed(call.jsonInput.issues[1])
        IN /\ ~ret.value.threw
           /\ ret.value.value.issues =
                 [k \in 1..Len(kept) |-> parseIssue(kept[k])]

(* ------------------------------- C16 ----------------------------------- *)

\* the step completes a live import while the sources hold, after the ones
\* the call started from, the tag of an import that was merged in between
IsOvertakenImportStep ==
    /\ lastOp'.op = "connectDone"
    /\ Len(projects) > Len(conn.projects)
    /\ SubSeq(projects, 1, Len(conn.projects)) = conn.projects

\* C16: when an import completes after another import that was started
\* later, the snapshot is the merge of both in the order of completion:
\* the tag of the import that completes is appended to the sources the
\* other import left, and the issues and sprints of the other import
\* are still there, next to the ones of the import that completes.
C16_RacingImportsBothKept ==
    [][IsOvertakenImportStep =>
          /\ projects' = Append(projects, lastOp'.key)
          /\ \A x \in Range(issues) :
                x.projectKey \in Range(projects) => Includes(issues', x)
          /\ \A x \in Range(sprints) :
                x.projectKey \in Range(projects) => Includes(sprints', x)
          /\ \A x \in Range(TagWith(lastOp'.data.issues, lastOp'.key)) :
                Includes(issues', x)]_vars

(* ------------------------------- C17 ----------------------------------- *)

\* C17: a reload right after a successful import, a source removal or a
\* capacity edit yields the team, issues, sprints and sources that were in
\* memory, where nothing stored means the bootstrap defaults and no
\* source.
C17_ReloadRestoresSnapshot ==
    [][(/\ lastOp'.op = "reload"
        /\ lastOp.op \in {"connectDone", "manualImport", "remove",
                          "capacity"}) =>
          /\ team' = team
          /\ issues' = issues
          /\ sprints' = sprints
          /\ projects' = projects]_vars

\* a reload that restored a stored workspace with a source whose issues
\* carry no sprint id, and a member whose capacity was edited
C17_Witness ==
    /\ lastOp.op = "reload"
    /\ storage.present
    /\ projects # <<>>
    /\ \E x \in Range(issues) :
          x.sprintId = Undefined /\ x.projectKey \in Range(projects)
    /\ \E m \in Range(team) : m.capacityPerSprint = 7

(* ------------------------------- C18 ----------------------------------- *)

\* C18: over imported issues, which carry no time-tracking fields, the
\* time totals are numbers: hours spent and estimated per assignee and per
\* epic, and hours spent per project and per epic group of the
\* profitability view; a missing field counts as 0.
C18_TimeTotalsAreNumbers ==
    projects # <<>> =>
        /\ \A m \in Range(team) : \A f \in OptionalNumberFields :
              IsFiniteNumber(assigneeHours(m, issues, f))
        /\ \A x \in Range(issues) :
              /\ \A f \in OptionalNumberFields :
                    IsFiniteNumber(epicHours(issues, epicName(x), f))
              /\ \A g \in {"project", "epic"} :
                    IsFiniteNumber(hoursSpent(issues, g, GroupKey(x, g)))

(* ------------------------------- C19 ----------------------------------- *)

\* the capacity parseTeamFromRaw and handleManualSubmit give every member
DefaultCapacity == 10

\* C19: when an import that follows other imports supplies a member id
\* that is in the team with a capacity the user has edited (imported
\* members start at the default capacity), the merged member has the name
\* of the later import and keeps the edited capacity.
C19_EditedCapacityKept ==
    [][(IsSequentialImport /\ projects # <<>>) =>
          \A m \in Range(team) : \A n \in Range(lastOp'.data.team) :
              (n.id = m.id /\ m.capacityPerSprint # DefaultCapacity) =>
                  \E x \in Range(team') :
                      /\ x.id = m.id
                      /\ x.name = n.name
                      /\ x.capacityPerSprint = m.capacityPerSprint]_vars

(* ------------------------------- C20 ----------------------------------- *)

\* the sum of the capacities of the members at the positions in idx
RECURSIVE CapacityAt(_, _)
CapacityAt(list, idx) ==
    IF idx = {} THEN 0
    ELSE LET k == CHOOSE k \in idx : TRUE
         IN list[k].capacityPerSprint + CapacityAt(list, idx \ {k})

\* the positions of the active sprints of a list
ActiveAt(list) == {k \in 1..Len(list) : list[k].state = "active"}

\* the first active sprint of a list that has one
FirstActive(list) ==
    list[CHOOSE k \in ActiveAt(list) : \A j \in ActiveAt(list) : k <= j]

\* the story points of the issues of the first active sprint
ActivePoints(list, sprintList) ==
    PointsAt(list, {k \in 1..Len(list) :
                      list[k].sprintId = FirstActive(sprintList).id})

\* x is the integer nearest to n / d (d > 0), a tie going up
IsNearest(x, n, d) ==
    /\ x.kind = "finite"
    /\ x.den = 1
    /\ 2 * n - d < 2 * x.num * d
    /\ 2 * x.num * d <= 2 * n + d

\* C20 as stated: sprint health is 100 x (points of the issues of the
\* first active sprint) / (sum of the capacities of all members), and 0
\* when no sprint is active or the total capacity is 0.
C20_SprintHealthAsStated ==
    (call.fn = "Dashboard" /\ ret.done) =>
        LET capacity == CapacityAt(call.team, 1..Len(call.team))
        IN IF ActiveAt(call.sprints) = {} \/ capacity = 0
           THEN ret.value.sprintHealth = Finite(0, 1)
           ELSE IsRatio(ret.value.sprintHealth,
                        100 * ActivePoints(call.issues, call.sprints),
                        capacity)

\* C20: sprint health is 100 x (points of the issues whose sprintId is the
\* id of the first active sprint in list order) / (sum of the capacities
\* of all members), rounded to the nearest integer, when a sprint is
\* active and the total capacity is positive; it is 0 when no sprint is
\* active and when the total capacity is 0 or negative.
C20_SprintHealth ==
    (call.fn = "Dashboard" /\ ret.done) =>
        LET capacity == CapacityAt(call.team, 1..Len(call.team))
        IN IF ActiveAt(call.sprints) = {} \/ capacity <= 0
           THEN ret.value.sprintHealth = Finite(0, 1)
           ELSE IsNearest(ret.value.sprintHealth,
                          100 * ActivePoints(call.issues, call.sprints),
                          capacity)

\* a rendering with two active sprints that hold different points, the
\* health being the rounded figure of the first one
C20_Witness ==
    /\ call.fn = "Dashboard"
    /\ ret.done
    /\ Cardinality(ActiveAt(call.sprints)) = 2
    /\ \E x, y \in Range(call.issues) :
          /\ x.sprintId = FirstActive(call.sprints).id
          /\ y.sprintId # FirstActive(call.sprints).id
          /\ y.sprintId \in {call.sprints[k].id : k \in ActiveAt(call.sprints)}
          /\ x.storyPoints # y.storyPoints
    /\ ret.value.sprintHealth.num > 0
    /\ ~IsRatio(ret.value.sprintHealth,
                100 * ActivePoints(call.issues, call.sprints),
                CapacityAt(call.team, 1..Len(call.team)))

(* ------------------------------- C21 ----------------------------------- *)

\* the points of the Done issues of the member with this id: those of the
\* first active sprint when a sprint is active, those of all sprints
\* otherwise
DonePointsIn(list, id, sprintList) ==
    PointsAt(list, {k \in 1..Len(list) :
                      /\ list[k].assigneeId = id
                      /\ list[k].status = "Done"
                      /\ ActiveAt(sprintList) # {} =>
                            list[k].sprintId = FirstActive(sprintList).id})

StartsBefore(list, a, b) ==
    \/ getTime(list[a].startDate) < getTime(list[b].startDate)
    \/ /\ getTime(list[a].startDate) = getTime(list[b].startDate)
       /\ a < b

\* the position in the stored list of the sprint of entry k of the forecast
StoredAt(list, k) ==
    CHOOSE a \in 1..Len(list) :
        Cardinality({b \in 1..Len(list) : StartsBefore(list, b, a)}) = k - 1

\* C22: the capacity forecast has exactly one entry per sprint of the
\* snapshot, in ascending startDate order, and the stored sprint list is
\* not reordered; the workload of an entry is the sum of the story points
\* of the issues whose sprintId is the id of its sprint, the capacity is
\* the total team capacity in every entry, and isBreach holds exactly when
\* the workload is strictly greater than the capacity.
C22_Forecast ==
    (call.fn = "Dashboard" /\ ret.done) =>
        LET f == ret.value.forecastData
            s == call.sprints
            capacity == CapacityAt(call.team, 1..Len(call.team))
        IN /\ Len(f) = Len(s)
           /\ ret.value.sprints = s
           /\ \A k \in 1..Len(f) :
                 LET sprint == s[StoredAt(s, k)]
                     load == PointsAt(call.issues,
                                 {j \in 1..Len(call.issues) :
                                     call.issues[j].sprintId = sprint.id})
                 IN /\ f[k].name = sprint.name
                    /\ f[k].capacity = capacity
                    /\ f[k].workload = load
                    /\ f[k].isBreach <=> load > capacity

\* a rendering of a sprint list stored out of date order, one sprint
\* holding exactly the capacity of the team: no breach
C22_Witness ==
    /\ call.fn = "Dashboard"
    /\ ret.done
    /\ \E a, b \in 1..Len(call.sprints) :
          a < b /\ StartsBefore(call.sprints, b, a)
    /\ \E k \in 1..Len(ret.value.forecastData) :
          LET d == ret.value.forecastData[k]
          IN d.workload = d.capacity /\ d.workload > 0 /\ ~d.isBreach

(* ------------------------------- C23 ----------------------------------- *)

\* spent - estimate of an issue that has both fields
Overage(issue) == issue.timeSpentSeconds[1] - issue.timeEstimateSeconds[1]

\* the issues with an estimate above 0 and more time spent than estimated
OverBudgetOf(list) ==
    {x \in Range(list) :
        /\ x.timeEstimateSeconds # Absent /\ x.timeSpentSeconds # Absent
        /\ x.timeEstimateSeconds[1] > 0
        /\ Overage(x) > 0}

\* C23: the over-budget list contains exactly the issues with
\* timeEstimateSeconds > 0 and timeSpentSeconds > timeEstimateSeconds, each
\* once (an issue with spent time and an estimate of 0 is not in it), in
\* the order of descending spent - estimate, and the overrun count is the
\* length of that list.
C23_OverBudgetList ==
    (call.fn = "TimeTrackingDashboard" /\ ret.done) =>
        LET l == ret.value.stats.overBudgetIssues
        IN /\ Range(l) = OverBudgetOf(call.issues)
           /\ Len(l) = Cardinality({k \in 1..Len(call.issues) :
                                      call.issues[k] \in OverBudgetOf(call.issues)})
           /\ \A a, b \in 1..Len(l) : a < b => Overage(l[a]) >= Overage(l[b])
           /\ ret.value.stats.overBudgetCount = Len(l)

\* a rendering of two issues over budget, stored with the smaller overrun
\* first and listed with the larger one first
C23_Witness ==
    /\ call.fn = "TimeTrackingDashboard"
    /\ ret.done
    /\ Len(call.issues) = 2
    /\ ret.value.stats.overBudgetCount = 2
    /\ Overage(call.issues[1]) < Overage(call.issues[2])
    /\ ret.value.stats.overBudgetIssues = <<call.issues[2], call.issues[1]>>

(* ------------------------------- C24 ----------------------------------- *)

\* twice x is below, or above, the largest of the values (which are finite
\* numbers; a NaN is below and above nothing)
IsBelowHalfOfMax(x, values) ==
    \E m \in values : (\A v \in values : ~JSLess(m, v))
                      /\ JSLess(JSTimes(x, 2), m)
IsAboveHalfOfMax(x, values) ==
    \E m \in values : (\A v \in values : ~JSLess(m, v))
                      /\ JSLess(m, JSTimes(x, 2))

\* C24 as stated: the quadrant of every group is decided against half of
\* the largest hoursSpent and half of the largest revenue among the
\* groups shown, and nothing else: above the revenue threshold and below
\* the hours threshold is Cash Cow, above revenue and not below hours is
\* Strategic Partner, not above revenue and below hours is Standard,
\* otherwise Drain.
C24_QuadrantsAsStated ==
    (call.fn = "ClientProfitability" /\ ret.done) =>
        LET rows == ret.value
            hours == {d.hoursSpent : d \in Range(rows)}
            revenues == {Finite(d.revenue, 1) : d \in Range(rows)}
        IN \A d \in Range(rows) :
              LET above == IsAboveHalfOfMax(Finite(d.revenue, 1), revenues)
                  below == IsBelowHalfOfMax(d.hoursSpent, hours)
              IN d.quadrant =
                    IF above /\ below THEN "Cash Cow"
                    ELSE IF above THEN "Strategic Partner"
                    ELSE IF below THEN "Standard"
                    ELSE "Drain / Noisy"

(* ------------------------------- C25 ----------------------------------- *)

\* the text holds the word somewhere, upper and lower case letters being
\* the same
ContainsWord(text, word) ==
    \E k \in 0..(Len(text) - Len(word)) :
        \A j \in 1..Len(word) :
            \/ text[k + j] = word[j]
            \/ \E n \in 1..26 : /\ text[k + j] = Alphabet.Upper[n]
                                /\ word[j] = Alphabet.Lower[n]

\* C25: issue-type and priority normalization test their keywords without
\* regard to case, in the documented order, and always return a value: a
\* type containing bug is Bug even if it also contains task or epic, task
\* beats epic, anything else (the empty string too) is Story; a priority
\* containing highest or blocker is Highest, otherwise high or critical is
\* High, otherwise low or minor is Low, anything else is Medium.
C25_KeywordPrecedence ==
    /\ (call.fn = "mapIssueType" /\ ret.done) =>
          ret.value =
              IF ContainsWord(call.type, Word.bug) THEN "Bug"
              ELSE IF ContainsWord(call.type, Word.task) THEN "Task"
              ELSE IF ContainsWord(call.type, Word.epic) THEN "Epic"
              ELSE "Story"
    /\ (call.fn = "mapPriority" /\ ret.done) =>
          ret.value =
              IF \/ ContainsWord(call.priority, Word.highest)
                 \/ ContainsWord(call.priority, Word.blocker) THEN "Highest"
              ELSE IF \/ ContainsWord(call.priority, Word.high)
                      \/ ContainsWord(call.priority, Word.critical) THEN "High"
              ELSE IF \/ ContainsWord(call.priority, Word.low)
                      \/ ContainsWord(call.priority, Word.minor) THEN "Low"
              ELSE "Medium"

\* a priority that holds highest written with a capital letter, and with
\* it high, has been normalized to Highest
C25_Witness ==
    /\ call.fn = "mapPriority"
    /\ ret.done
    /\ ret.value = "Highest"
    /\ ContainsWord(call.priority, Word.highest)
    /\ ContainsWord(call.priority, Word.high)
    /\ ~includes(call.priority, Word.highest)

(* ------------------------------- C26 ----------------------------------- *)

\* the member is made of a record of this set that is flagged as a
\* standard user account, with the defaults of an imported member
IsFromHumanAccount(m, records) ==
    /\ \E u \in records :
          /\ u.accountType = "atlassian"
          /\ u.accountId = m.id
          /\ u.displayName = m.name
    /\ m.role = "Developer"
    /\ m.capacityPerSprint = 10
    /\ m.skills = <<>>

\* C26: every team member that an import hands to the snapshot, on the
\* live path (parseTeamFromRaw) and on the manual path (the assignees of
\* the pasted issues), is made of a record with accountType atlassian, and
\* has role Developer, capacityPerSprint 10 and no skills.
C26_OnlyHumanAccountsImported ==
    /\ (call.fn = "parseTeamFromRaw" /\ ret.done) =>
          \A m \in Range(ret.value) : IsFromHumanAccount(m, Range(call.users))
    /\ (call.fn = "handleManualSubmit" /\ ret.done /\ ~ret.value.threw) =>
          \A m \in Range(ret.value.value.team) :
              IsFromHumanAccount(m,
                  {i.fields[1].assignee[1] :
                      i \in {x \in Range(call.jsonInput.issues[1]) :
                                x.fields[1].assignee # <<>>}})

(* ------------------------------- C27 ----------------------------------- *)

\* C27: after any sequence of live imports, manual imports and removals
\* the sources list holds no tag twice: the tag a manual import is given
\* is never one that is in the list already.
C27_SourceTagsUnique ==
    \A a, b \in 1..Len(projects) : a # b => projects[a] # projects[b]

(* ------------------------------- C28 ----------------------------------- *)

\* C28: in every reachable state provenance is consistent: when sources is
\* not empty every issue and every sprint carries a source tag that is in
\* sources, and when sources is empty no issue and no sprint carries a
\* source tag.
C28_ProvenanceConsistent ==
    \A x \in Range(issues) \cup Range(sprints) :
        IF Len(projects) > 0
        THEN x.projectKey \in Range(projects)
        ELSE x.projectKey = Undefined

(* ------------------------------- C29 ----------------------------------- *)

\* C29: a source removal or a capacity edit made while a live import is in
\* flight is not undone when the import completes: after the completion
\* the removed source, its issues and its sprints are absent, and a member
\* of the team that the import did not supply has the capacity the edit
\* gave it.
C29_InFlightChangesKept ==
    [][lastOp'.op = "connectDone" =>
          /\ lastOp.op = "remove" =>
                /\ ~Includes(projects', lastOp.key)
                /\ \A x \in Range(issues') \cup Range(sprints') :
                      x.projectKey # lastOp.key
          /\ lastOp.op = "capacity" =>
                \A x \in Range(team') :
                    (/\ x.id = lastOp.id
                     /\ \A n \in Range(lastOp'.data.team) : n.id # x.id) =>
                        x.capacityPerSprint = lastOp.cap]_vars

(* ------------------------------- C30 ----------------------------------- *)

\* C30: import followed by removal is a round trip on issues, sprints and
\* sources: when a snapshot that has at least one source takes the import
\* of a new source T, handleRemoveProject of T on the result gives back
\* the issues, the sprints and the sources the snapshot had before the
\* import, element by element in the same order; a member of the team is
\* still there, and is as before unless T supplied a member of that id.
C30_ImportThenRemoveRoundTrip ==
    [][(/\ IsSequentialImport
        /\ Len(projects) > 0
        /\ ~Includes(projects, lastOp'.key)) =>
          LET r == AfterRemove(team', issues', sprints', projects',
                               lastOp'.key)
          IN /\ r.issues = issues
             /\ r.sprints = sprints
             /\ r.projects = projects
             /\ \A m \in Range(team) :
                   \E x \in Range(r.team) :
                       /\ x.id = m.id
                       /\ \/ x = m
                          \/ \E n \in Range(lastOp'.data.team) : n.id = m.id
     ]_vars

\* a manual import into a snapshot of one source was removed again as the
\* third operation: the sources, the issues and the sprints are those of
\* the first import
C30_Witness ==
    /\ ops = 3
    /\ lastOp.op = "remove"
    /\ Len(projects) = 1
    /\ lastOp.key = ManualKey(projects)
    /\ lastOp.key # projects[1]
    /\ issues # <<>>
    /\ \A x \in Range(issues) \cup Range(sprints) : x.projectKey = projects[1]

====
